---------------------------- MODULE Spec2Model ----------------------------
(***************************************************************************)
(* llm-search-scout: the Rate Gate (api/auth.py) and the result-enrichment *)
(* pipeline (api/routers/search.py, api/routers/stream.py and the services *)
(* they call), as state machines.                                          *)
(*                                                                         *)
(*   SpecGate  the Rate Gate: concurrent verify_api_key_with_rate_limit    *)
(*             calls and the periodic sweep, over a wall clock             *)
(*   Spec      the pipeline: one request, in batch or in stream mode       *)
(*   SpecStream, SpecDedup, SpecAi, SpecExtract, SpecEnrich                *)
(*             stream requests under fair scheduling, and single calls of  *)
(*             the functions of api/services                               *)
(*                                                                         *)
(* Time is counted in ticks, TicksPerSecond ticks to the second, so that   *)
(* the whole-second conversions of the response headers are conversions.   *)
(***************************************************************************)
EXTENDS Integers, Sequences, FiniteSets, TLC

VARIABLES
    \* ---- Rate Gate (api/auth.py) ----
    clock,              \* datetime.utcnow(), in ticks
    rate_limit_store,   \* _rate_limit_store: api key -> list of timestamps
    rate_limit_lock,    \* _rate_limit_lock.locked()
    pc,                 \* where each coroutine is
    api_key,            \* each caller's X-API-Key header value
    now,                \* each coroutine's local `now`
    outcome,            \* what check_rate_limit / verify_api_key produced
    snap,               \* history: the store as it was when the lock was taken
    admitted,           \* history: the admissions of the trailing window
    wake,               \* when the sweep's sleep(300) ends
    \* ---- pipeline (api/routers/search.py, api/routers/stream.py) ----
    openai_api_key,     \* settings.openai_api_key, as characters
    stage,              \* where the request handler is
    mode,               \* "batch" (/search) or "stream" (/search/stream)
    flags,              \* summarize, embeddings, dedup
    raw_results,        \* searxng_results["results"]
    fetch,              \* how each hit's extraction ended (batch_extract's
                        \* tasks; in stream mode, the hits processed so far)
    extracted_content,  \* batch_extract's output, url -> entry
    tasks,              \* what _process_single_result returned for each hit
    processed,          \* _process_results: processed
    result_embeddings,  \* _apply_ai_features: result_embeddings
    result_summaries,   \* _apply_ai_features: result_summaries
    response,           \* what /search answers
    events,             \* what /search/stream has yielded
    cursor,             \* stream: the raw hit being processed
    current,            \* stream: where the generator is suspended
    connected,          \* stream: the consumer is still there
    searchCalls,        \* history: calls to the Search Backend
    extractCalls,       \* history: extract_from_url calls
    lmCalls,            \* history: calls to the Language Model Backend
    overtaken,          \* history: a gathered task finished before an earlier one
    searched,           \* history: how the Search Backend call ended
    \* ---- one call of one function of the services ----
    called,             \* the function and its arguments
    returned,           \* what it returned
    sent                \* the calls it made to a backend or a library

gateVars == <<clock, rate_limit_store, rate_limit_lock, pc, api_key, now,
              outcome, snap, admitted, wake>>

pipeVars == <<openai_api_key, stage, mode, flags, raw_results, fetch,
              extracted_content, tasks, processed, result_embeddings,
              result_summaries, response, events, cursor, current, connected,
              searchCalls, extractCalls, lmCalls, overtaken, searched>>

fnVars == <<called, returned, sent>>

vars == <<gateVars, pipeVars, fnVars>>

\* ------------------------------------------------------------------ bounds
TicksPerSecond == 2
Limit == 2
MaxHits == 3
MaxItems == 3

\* ------------------------------------------------------- program constants
WindowSeconds == 60
SleepSeconds == 300
CutoffSeconds == 300

\* ------------------------------------------------------------------ helpers
Range(s) == {s[i] : i \in DOMAIN s}

Min(S) == CHOOSE x \in S : \A y \in S : x <= y

Seconds(n) == n * TicksPerSecond

\* int(x.total_seconds()) and int(x.timestamp()): whole seconds, truncated
\* (the arguments are never negative here).
IntSeconds(ticks) == ticks \div TicksPerSecond

NoOutcome == [status |-> 0]

\* ------------------------------------------------------------- environment
ApiKeysList == {"k1", "k2"}

\* the X-API-Key header values each caller sends: "" is a missing header,
\* "bad" a key that is not configured
HeaderValues(p) ==
    IF p = "c1" THEN ApiKeysList \cup {"", "bad"} ELSE {"k1"}

Callers == {"c1", "c2"}

Sweeper == "sweep"

\* The instants at which the model samples the clock: the start, one window
\* later and one sweep interval later, each on the whole second and one tick
\* after it.
SampledSeconds == {0, WindowSeconds, SleepSeconds}

Instants == {Seconds(s) + o : s \in SampledSeconds, o \in 0 .. 1}

\* history: the admissions that can still share a trailing window with a
\* later one
Recent(log, t) ==
    [k \in DOMAIN log |->
        SelectSeq(log[k], LAMBDA ts : ts > t - Seconds(WindowSeconds))]

\* ------------------------------------------------------------ the Rate Gate
rate_limit_per_minute == Limit

\* timestamps[:] = [ts for ts in timestamps if ts > window_start]
Retained(timestamps, start) == SelectSeq(timestamps, LAMBDA ts : ts > start)

\* _rate_limit_store[api_key] of a defaultdict(list)
StoreGet(store, key) == IF key \in DOMAIN store THEN store[key] ELSE <<>>

StorePut(store, key, timestamps) ==
    [k \in DOMAIN store \cup {key} |->
        IF k = key THEN timestamps ELSE store[k]]

LockFreeIgnored == TRUE

\* asyncio.Lock: acquire() passes only while the lock is not held
LockFree == ~rate_limit_lock

LimitExceededOffByOne(current_count, limit) == current_count > limit

\* if current_count >= limit
LimitExceeded(current_count, limit) == current_count >= limit

\* the HTTPException(429) of check_rate_limit and its headers
Denied(timestamps, n, limit) ==
    LET oldest_request == Min(Range(timestamps))
        reset_time == oldest_request + Seconds(WindowSeconds)
        seconds_until_reset == IntSeconds(reset_time - n)
    IN  [status |-> 429, limit |-> limit, remaining |-> 0,
         reset_time |-> reset_time,
         reset |-> IntSeconds(reset_time),
         retry_after |-> seconds_until_reset]

\* the (remaining, limit, reset_time) check_rate_limit returns, as the headers
\* verify_api_key_with_rate_limit makes of it
Admitted(timestamps, n, limit) ==
    LET reset_time == n + Seconds(WindowSeconds)
    IN  [status |-> 200, limit |-> limit,
         remaining |-> limit - Len(timestamps),
         reset_time |-> reset_time,
         reset |-> IntSeconds(reset_time),
         retry_after |-> 0]

WindowAfterAlwaysAppends(timestamps, n, limit) == Append(timestamps, n)

\* timestamps.append(now), reached only when the limit is not exceeded
WindowAfter(timestamps, n, limit) ==
    IF LimitExceeded(Len(timestamps), limit)
    THEN timestamps
    ELSE Append(timestamps, n)

SweptKeepsEmpty(store, n) ==
    [k \in DOMAIN store |->
        Retained(store[k], n - Seconds(CutoffSeconds))]

SweptDroppingAll(store, n) == <<>>

\* one pass of cleanup_old_rate_limit_data over the store
Swept(store, n) ==
    LET cutoff == n - Seconds(CutoffSeconds)
        kept == {k \in DOMAIN store : Retained(store[k], cutoff) # <<>>}
    IN  [k \in kept |-> Retained(store[k], cutoff)]

GateInit ==
    /\ clock = 0
    /\ rate_limit_store = <<>>
    /\ rate_limit_lock = FALSE
    /\ pc = [p \in Callers \cup {Sweeper} |->
                IF p = Sweeper THEN "sleep" ELSE "idle"]
    /\ api_key = [p \in Callers |-> ""]
    /\ now = [p \in Callers \cup {Sweeper} |-> 0]
    /\ outcome = [p \in Callers |-> NoOutcome]
    /\ snap = [p \in Callers \cup {Sweeper} |-> <<>>]
    /\ admitted = [k \in ApiKeysList |-> <<>>]
    /\ wake = Seconds(SleepSeconds)

\* the wall clock moves on (the critical sections hold no suspension point
\* and read the clock once, on entry: time passes between them)
Tick ==
    /\ UNCHANGED <<pipeVars, fnVars>>
    /\ ~rate_limit_lock
    /\ \E t \in Instants :
        /\ t > clock
        /\ clock' = t
        /\ admitted' = Recent(admitted, t)
    /\ UNCHANGED <<rate_limit_store, rate_limit_lock, pc, api_key, now,
                   outcome, snap, wake>>

VerifyApiKeyAfterGate(p) ==
    /\ UNCHANGED <<pipeVars, fnVars>>
    /\ pc[p] = "idle"
    /\ \E hdr \in HeaderValues(p) :
        /\ api_key' = [api_key EXCEPT ![p] = hdr]
        /\ outcome' = [outcome EXCEPT ![p] = NoOutcome]
        /\ pc' = [pc EXCEPT ![p] = "acquire"]
    /\ UNCHANGED <<clock, rate_limit_store, rate_limit_lock, now, snap,
                   admitted, wake>>

\* verify_api_key: 401 for a missing key, 403 for one not in api_keys_list
VerifyApiKey(p) ==
    /\ UNCHANGED <<pipeVars, fnVars>>
    /\ pc[p] = "idle"
    /\ \E hdr \in HeaderValues(p) :
        /\ api_key' = [api_key EXCEPT ![p] = hdr]
        /\ IF hdr = ""
           THEN /\ outcome' = [outcome EXCEPT ![p] = [status |-> 401]]
                /\ pc' = [pc EXCEPT ![p] = "raised"]
           ELSE IF hdr \notin ApiKeysList
           THEN /\ outcome' = [outcome EXCEPT ![p] = [status |-> 403]]
                /\ pc' = [pc EXCEPT ![p] = "raised"]
           ELSE /\ outcome' = [outcome EXCEPT ![p] = NoOutcome]
                /\ pc' = [pc EXCEPT ![p] = "acquire"]
    /\ UNCHANGED <<clock, rate_limit_store, rate_limit_lock, now, snap,
                   admitted, wake>>

\* async with _rate_limit_lock (check_rate_limit)
Acquire(p) ==
    /\ UNCHANGED <<pipeVars, fnVars>>
    /\ pc[p] = "acquire"
    /\ LockFree
    /\ rate_limit_lock' = TRUE
    /\ snap' = [snap EXCEPT ![p] = rate_limit_store]
    /\ pc' = [pc EXCEPT ![p] = "prune"]
    /\ UNCHANGED <<clock, rate_limit_store, api_key, now, outcome, admitted, wake>>

\* check_rate_limit, lines 65-72: read the clock, drop what left the window
Prune(p) ==
    /\ UNCHANGED <<pipeVars, fnVars>>
    /\ pc[p] = "prune"
    /\ now' = [now EXCEPT ![p] = clock]
    /\ rate_limit_store' =
          StorePut(rate_limit_store, api_key[p],
                   Retained(StoreGet(rate_limit_store, api_key[p]),
                            clock - Seconds(WindowSeconds)))
    /\ pc' = [pc EXCEPT ![p] = "decide"]
    /\ UNCHANGED <<clock, rate_limit_lock, api_key, outcome, snap, admitted, wake>>

\* check_rate_limit, lines 75-102: deny, or append `now` and admit
Decide(p) ==
    /\ UNCHANGED <<pipeVars, fnVars>>
    /\ pc[p] = "decide"
    /\ LET timestamps == StoreGet(rate_limit_store, api_key[p])
           limit == rate_limit_per_minute
           after == WindowAfter(timestamps, now[p], limit)
       IN  /\ rate_limit_store' =
                  StorePut(rate_limit_store, api_key[p], after)
           /\ IF LimitExceeded(Len(timestamps), limit)
              THEN /\ outcome' = [outcome EXCEPT ![p] =
                                     Denied(timestamps, now[p], limit)]
                   /\ UNCHANGED admitted
              ELSE /\ outcome' = [outcome EXCEPT ![p] =
                                     Admitted(after, now[p], limit)]
                   /\ admitted' = [admitted EXCEPT ![api_key[p]] =
                                     Append(@, now[p])]
    /\ pc' = [pc EXCEPT ![p] = "release"]
    /\ UNCHANGED <<clock, rate_limit_lock, api_key, now, snap, wake>>

\* where a coroutine leaving the lock goes: the 429 propagates, the tuple
\* returns
AfterRelease(o) == IF o.status = 429 THEN "raised" ELSE "returned"

ReleaseOnAdmitOnly(p) ==
    /\ UNCHANGED <<pipeVars, fnVars>>
    /\ pc[p] = "release"
    /\ rate_limit_lock' = (outcome[p].status = 429)
    /\ pc' = [pc EXCEPT ![p] = AfterRelease(outcome[p])]
    /\ snap' = [snap EXCEPT ![p] = <<>>]
    /\ UNCHANGED <<clock, rate_limit_store, api_key, now, outcome, admitted, wake>>

\* leaving `async with`: the lock is released, the result reaches the caller
Release(p) ==
    /\ UNCHANGED <<pipeVars, fnVars>>
    /\ pc[p] = "release"
    /\ rate_limit_lock' = FALSE
    /\ pc' = [pc EXCEPT ![p] = AfterRelease(outcome[p])]
    /\ snap' = [snap EXCEPT ![p] = <<>>]
    /\ UNCHANGED <<clock, rate_limit_store, api_key, now, outcome, admitted, wake>>

\* the request is over (answered, or rejected with 401/403/429)
Finish(p) ==
    /\ UNCHANGED <<pipeVars, fnVars>>
    /\ pc[p] \in {"raised", "returned"}
    /\ pc' = [pc EXCEPT ![p] = "idle"]
    /\ outcome' = [outcome EXCEPT ![p] = NoOutcome]
    /\ api_key' = [api_key EXCEPT ![p] = ""]
    /\ now' = [now EXCEPT ![p] = 0]
    /\ UNCHANGED <<clock, rate_limit_store, rate_limit_lock, snap, admitted, wake>>

\* cleanup_old_rate_limit_data: sleep(300) is over, take the lock
SweepAcquire ==
    /\ UNCHANGED <<pipeVars, fnVars>>
    /\ pc[Sweeper] = "sleep"
    /\ clock >= wake
    /\ LockFree
    /\ rate_limit_lock' = TRUE
    /\ snap' = [snap EXCEPT ![Sweeper] = rate_limit_store]
    /\ pc' = [pc EXCEPT ![Sweeper] = "sweep"]
    /\ UNCHANGED <<clock, rate_limit_store, api_key, now, outcome, admitted, wake>>

\* cleanup_old_rate_limit_data, lines 145-155
SweepPass ==
    /\ UNCHANGED <<pipeVars, fnVars>>
    /\ pc[Sweeper] = "sweep"
    /\ now' = [now EXCEPT ![Sweeper] = clock]
    /\ rate_limit_store' = Swept(rate_limit_store, clock)
    /\ pc' = [pc EXCEPT ![Sweeper] = "release"]
    /\ UNCHANGED <<clock, rate_limit_lock, api_key, outcome, snap, admitted, wake>>

\* the sweep leaves the lock and sleeps again
SweepRelease ==
    /\ UNCHANGED <<pipeVars, fnVars>>
    /\ pc[Sweeper] = "release"
    /\ rate_limit_lock' = FALSE
    /\ pc' = [pc EXCEPT ![Sweeper] = "sleep"]
    /\ wake' = clock + Seconds(SleepSeconds)
    /\ snap' = [snap EXCEPT ![Sweeper] = <<>>]
    /\ now' = [now EXCEPT ![Sweeper] = 0]
    /\ UNCHANGED <<clock, rate_limit_store, api_key, outcome, admitted>>

\* ------------------------------------------------------ Rate Gate: claims
Procs == Callers \cup {Sweeper}

InCriticalSection(p) ==
    IF p = Sweeper
    THEN pc[p] \in {"sweep", "release"}
    ELSE pc[p] \in {"prune", "decide", "release"}

Age(p, ts) == now[p] - ts

\* the admissions of key k whose timestamps lie in the window (t - 60 s, t]
AdmittedIn(k, t) ==
    Cardinality({i \in DOMAIN admitted[k] :
                    /\ admitted[k][i] > t - Seconds(WindowSeconds)
                    /\ admitted[k][i] <= t})

\* the admissions of p's key younger than 60 s at p's `now`, p's own excluded
YoungBefore(p) ==
    Cardinality({i \in DOMAIN admitted[api_key[p]] :
                    Age(p, admitted[api_key[p]][i]) < Seconds(WindowSeconds)})
    - (IF outcome[p].status = 200 THEN 1 ELSE 0)

\* C1: for every key and every interleaving of calls and sweep, no trailing
\* 60-second window (one ending at an admission or at the present suffices:
\* a window ending elsewhere holds no more than the one ending at its last
\* admission) holds more than `limit` admissions, and a call made while
\* `limit` admissions of its key are younger than 60 s is denied with
\* remaining = 0.
C1_AtMostLimitPerWindow ==
    /\ \A k \in ApiKeysList :
          \A t \in Range(admitted[k]) \cup {clock} :
              AdmittedIn(k, t) <= rate_limit_per_minute
    /\ \A p \in Callers :
          (pc[p] = "release" /\ YoungBefore(p) >= rate_limit_per_minute)
              => (outcome[p].status = 429 /\ outcome[p].remaining = 0)

\* C1 witness: a call is denied while `limit` admissions of its key are in
\* the window and another call for the same key waits for the lock.
C1_Witness ==
    \E p, q \in Callers :
        /\ p # q
        /\ pc[p] = "release"
        /\ outcome[p].status = 429
        /\ Len(admitted[api_key[p]]) = rate_limit_per_minute
        /\ pc[q] = "acquire"
        /\ api_key[q] = api_key[p]

\* C2: a denial carries the limit, remaining = 0, a reset time equal to
\* oldest retained timestamp + 60 s and a retry hint equal to
\* oldest + 60 s - now, and it is raised to the caller.
C2_DenialCarriesResetAndHint ==
    \A p \in Callers :
        (pc[p] = "release" /\ outcome[p].status = 429) =>
            LET oldest == Min(Range(rate_limit_store[api_key[p]]))
            IN  /\ outcome[p].limit = rate_limit_per_minute
                /\ outcome[p].remaining = 0
                /\ Seconds(outcome[p].reset) =
                       oldest + Seconds(WindowSeconds)
                /\ Seconds(outcome[p].retry_after) =
                       oldest + Seconds(WindowSeconds) - now[p]
                /\ AfterRelease(outcome[p]) = "raised"

\* C2 witness: a denial whose oldest retained timestamp is off the whole
\* second.
C2_Witness ==
    \E p \in Callers :
        /\ pc[p] = "release"
        /\ outcome[p].status = 429
        /\ Min(Range(rate_limit_store[api_key[p]])) % TicksPerSecond # 0

\* What the code does give (not the claim): the exact reset time, and both
\* headers truncated to whole seconds.
C2_DenialHeadersTruncated ==
    \A p \in Callers :
        (pc[p] = "release" /\ outcome[p].status = 429) =>
            LET oldest == Min(Range(rate_limit_store[api_key[p]]))
                exact == oldest + Seconds(WindowSeconds) - now[p]
            IN  /\ outcome[p].reset_time = oldest + Seconds(WindowSeconds)
                /\ exact > 0
                /\ Seconds(outcome[p].retry_after) <= exact
                /\ exact < Seconds(outcome[p].retry_after + 1)

\* C3: a denied call leaves its key's window as pruning left it, an admitted
\* call appends exactly `now` to it, no other key's window changes, and the
\* window holds the admissions of the trailing 60 s and nothing else (a
\* denial leaves no trace that could delay the next admission).
C3_DeniedLeavesWindow ==
    \A p \in Callers :
        pc[p] = "release" =>
            LET k == api_key[p]
                pruned == SelectSeq(StoreGet(snap[p], k),
                              LAMBDA ts : Age(p, ts) < Seconds(WindowSeconds))
            IN  /\ outcome[p].status \in {200, 429}
                /\ outcome[p].status = 429 => rate_limit_store[k] = pruned
                /\ outcome[p].status = 200 =>
                       rate_limit_store[k] = Append(pruned, now[p])
                /\ \A j \in DOMAIN rate_limit_store \cup DOMAIN snap[p] :
                       j # k => /\ j \in DOMAIN rate_limit_store
                                /\ j \in DOMAIN snap[p]
                                /\ rate_limit_store[j] = snap[p][j]
                /\ rate_limit_store[k] = admitted[k]

\* C3 witness: a denial that left a full window untouched.
C3_Witness ==
    \E p \in Callers :
        /\ pc[p] = "release"
        /\ outcome[p].status = 429
        /\ Len(rate_limit_store[api_key[p]]) = rate_limit_per_minute
        /\ rate_limit_store[api_key[p]] = snap[p][api_key[p]]

\* C4: right after a sweep pass the store holds no timestamp older than
\* 5 minutes and no key with an empty window, and every timestamp younger
\* than 5 minutes is still there.
C4_SweepLeaves ==
    pc[Sweeper] = "release" =>
        /\ \A k \in DOMAIN rate_limit_store :
              /\ rate_limit_store[k] # <<>>
              /\ \A ts \in Range(rate_limit_store[k]) :
                     ~(Age(Sweeper, ts) > Seconds(CutoffSeconds))
        /\ \A k \in DOMAIN snap[Sweeper] :
              LET young == SelectSeq(snap[Sweeper][k],
                              LAMBDA ts :
                                  Age(Sweeper, ts) < Seconds(CutoffSeconds))
              IN  young # <<>> =>
                     /\ k \in DOMAIN rate_limit_store
                     /\ SelectSeq(rate_limit_store[k],
                            LAMBDA ts :
                                Age(Sweeper, ts) < Seconds(CutoffSeconds))
                          = young

\* C4 witness: a pass that deleted one key and kept another.
C4_Witness ==
    /\ pc[Sweeper] = "release"
    /\ \E k \in DOMAIN snap[Sweeper] : k \notin DOMAIN rate_limit_store
    /\ \E k \in DOMAIN snap[Sweeper] : k \in DOMAIN rate_limit_store

\* C5: at most one coroutine (a check_rate_limit call or the sweep) is in
\* the critical section, and what a call counts is its own pruning of the
\* store it found on entry: nobody changed the store in between.
C5_OneInCriticalSection ==
    /\ Cardinality({p \in Procs : InCriticalSection(p)}) <= 1
    /\ \A p \in Procs : InCriticalSection(p) => rate_limit_lock
    /\ \A p \in Callers :
          /\ pc[p] = "prune" => rate_limit_store = snap[p]
          /\ pc[p] = "decide" =>
                rate_limit_store =
                    StorePut(snap[p], api_key[p],
                             Retained(StoreGet(snap[p], api_key[p]),
                                      now[p] - Seconds(WindowSeconds)))
    /\ pc[Sweeper] = "sweep" => rate_limit_store = snap[Sweeper]

\* C5 witness: a call is between its pruning and its count while another
\* call for the same key and the sweep both wait for the lock.
C5_Witness ==
    \E p, q \in Callers :
        /\ p # q
        /\ pc[p] = "decide"
        /\ pc[q] = "acquire"
        /\ api_key[q] = api_key[p]
        /\ pc[Sweeper] = "sleep"
        /\ clock >= wake

\* ============================================================ the pipeline
\* ----------------------------------------------------------------- values
\* Python's None, where a string may stand
None == "<None>"

\* bool(x) of an optional string
Truthy(x) == x \notin {None, ""}

\* Optional[List[float]]
NoEmbedding == [some |-> FALSE, vec |-> <<>>]

SomeEmbedding(v) == [some |-> TRUE, vec |-> v]

\* a gathered coroutine that has not finished: where its result will be a
\* record, and where it will be a string
Pending == [kind |-> "pending"]

PendingTask == "<pending>"

\* an earlier task of the same gather is still running when task i finishes
Overtakes(results, i, pending) ==
    \E k \in 1 .. (i - 1) : results[k] = pending

\* the None _process_single_result returns when anything in it raises
NoResult == [kind |-> "none"]

NoResponse == [status |-> 0, results |-> <<>>, detail |-> ""]

NoFlags == [summarize |-> FALSE, embeddings |-> FALSE, dedup |-> FALSE]

Max(S) == CHOOSE x \in S : \A y \in S : x >= y

Reverse(s) == [i \in 1 .. Len(s) |-> s[Len(s) + 1 - i]]

\* ------------------------------------------------------------- environment
\* one configuration with no key, one with a blank key, one with a key
OpenAiKeys == {<<>>, <<" ">>, <<"s", "k">>}

AllFlags ==
    [summarize : BOOLEAN, embeddings : BOOLEAN, dedup : BOOLEAN]

Url(i) == "u" \o ToString(i)

\* a search-engine snippet longer than 500 characters
LongText == "snippet2 (more than 500 characters)"

\* The Search Backend's hit of rank i for the page numbered u.  Hit 2 carries
\* a snippet of more than 500 characters and hit 3 an empty one.
RawHit(i, u) ==
    [rank |-> i,
     url |-> Url(u),
     title |-> "title" \o ToString(i),
     content |-> IF i = 2 THEN LongText
                 ELSE IF i = 3 THEN ""
                 ELSE "snippet" \o ToString(i),
     engine |-> "engine" \o ToString(i)]

\* The result lists the Search Backend returns: n hits for n distinct pages,
\* or n hits of which the last is the first hit's page again (a second
\* engine's hit for the same URL).
SearchResults ==
    {[i \in 1 .. n |-> RawHit(i, i)] : n \in 1 .. MaxHits}
    \cup
    {[i \in 1 .. n |-> RawHit(i, IF i = n THEN 1 ELSE i)] : n \in 2 .. MaxHits}

\* What extracting a page gives when it works: page 2 is a document with an
\* empty body and no <title>.
Page(url) ==
    IF url = Url(2)
    THEN [content |-> "", title |-> None]
    ELSE [content |-> "body of " \o url, title |-> "page title of " \o url]

\* embedding vectors the Language Model Backend may answer with
Vectors == {<<1, 0>>, <<0, 1>>}

\* the answers to one embeddings call for m texts: one vector per text, or
\* one vector short
EmbeddingAnswers(m) ==
    UNION {[1 .. k -> Vectors] : k \in {m, m - 1} \cap (0 .. m)}

\* ------------------------------------------------------------- config.py
RECURSIVE LStrip(_)
LStrip(s) == IF s # <<>> /\ Head(s) = " " THEN LStrip(Tail(s)) ELSE s

\* str.strip()
Strip(s) == Reverse(LStrip(Reverse(LStrip(s))))

\* Settings.has_openai: bool(key and key.strip())
has_openai == openai_api_key # <<>> /\ Strip(openai_api_key) # <<>>

\* ------------------------------------------------- content_extractor.py
\* {"content": None, "title": None}
EmptyExtraction == [content |-> None, title |-> None]

\* extract_from_url: the page when fetch and parse work, the empty entry on
\* a network failure, an error status, a timeout, a non-HTML type, a parse
\* failure
ExtractFromUrl(url, works) == IF works THEN Page(url) ELSE EmptyExtraction

\* batch_extract's output: zip(urls, results) written into one dict in list
\* order, so that a URL's last result stays
BatchExtractOutput(urls, results) ==
    [u \in Range(urls) |->
        results[Max({i \in DOMAIN urls : urls[i] = u})]]

\* ---------------------------------------------------------- ai_service.py
Dot(a, b) ==
    LET RECURSIVE Sum(_)
        Sum(i) == IF i = 0 THEN 0 ELSE a[i] * b[i] + Sum(i - 1)
    IN  Sum(Len(a))

\* dot / (norm_a * norm_b) >= num / den, for norms that are not 0 and
\* 0 < den, in whole numbers
QuotientAtLeast(dot, sq_a, sq_b, num, den) ==
    IF num <= 0
    THEN \/ dot >= 0
         \/ dot * dot * den * den <= num * num * sq_a * sq_b
    ELSE /\ dot >= 0
         /\ dot * dot * den * den >= num * num * sq_a * sq_b

SimilarityAbove(vec1, vec2, num, den) ==
    IF Dot(vec1, vec1) = 0 \/ Dot(vec2, vec2) = 0
    THEN num < 0
    ELSE ~QuotientAtLeast(-Dot(vec1, vec2), Dot(vec1, vec1), Dot(vec2, vec2),
                          -num, den)

SimilarityAtLeastNoZeroCheck(vec1, vec2, num, den) ==
    /\ Dot(vec1, vec2) >= 0
    /\ Dot(vec1, vec2) * Dot(vec1, vec2) * den * den
          >= num * num * Dot(vec1, vec1) * Dot(vec2, vec2)

\* cosine_similarity(vec1, vec2) >= num / den: the similarity is 0.0 when a
\* norm is 0
SimilarityAtLeast(vec1, vec2, num, den) ==
    IF Dot(vec1, vec1) = 0 \/ Dot(vec2, vec2) = 0
    THEN num <= 0
    ELSE QuotientAtLeast(Dot(vec1, vec2), Dot(vec1, vec1), Dot(vec2, vec2),
                         num, den)

RECURSIVE DedupWalkNoContinue(_, _, _, _, _, _)
DedupWalkNoContinue(embeddings, i, keep_indices, seen_embeddings, num, den) ==
    IF i > Len(embeddings)
    THEN keep_indices
    ELSE IF ~embeddings[i].some
    THEN DedupWalkNoContinue(embeddings, i + 1,
                             keep_indices \o <<i, i>>,
                             seen_embeddings, num, den)
    ELSE IF \E j \in DOMAIN seen_embeddings :
               SimilarityAtLeast(embeddings[i].vec, seen_embeddings[j],
                                 num, den)
    THEN DedupWalkNoContinue(embeddings, i + 1, keep_indices,
                             seen_embeddings, num, den)
    ELSE DedupWalkNoContinue(embeddings, i + 1, Append(keep_indices, i),
                             Append(seen_embeddings, embeddings[i].vec),
                             num, den)

RECURSIVE DedupWalkSeenAll(_, _, _, _, _, _)
DedupWalkSeenAll(embeddings, i, keep_indices, seen_embeddings, num, den) ==
    IF i > Len(embeddings)
    THEN keep_indices
    ELSE IF ~embeddings[i].some
    THEN DedupWalkSeenAll(embeddings, i + 1, Append(keep_indices, i),
                          seen_embeddings, num, den)
    ELSE IF \E j \in DOMAIN seen_embeddings :
               SimilarityAtLeast(embeddings[i].vec, seen_embeddings[j],
                                 num, den)
    THEN DedupWalkSeenAll(embeddings, i + 1, keep_indices,
                          Append(seen_embeddings, embeddings[i].vec),
                          num, den)
    ELSE DedupWalkSeenAll(embeddings, i + 1, Append(keep_indices, i),
                          Append(seen_embeddings, embeddings[i].vec),
                          num, den)

\* the loop of deduplicate_by_embeddings, from item i on
RECURSIVE DedupWalk(_, _, _, _, _, _)
DedupWalk(embeddings, i, keep_indices, seen_embeddings, num, den) ==
    IF i > Len(embeddings)
    THEN keep_indices
    ELSE IF ~embeddings[i].some
    THEN DedupWalk(embeddings, i + 1, Append(keep_indices, i),
                   seen_embeddings, num, den)
    ELSE IF \E j \in DOMAIN seen_embeddings :
               SimilarityAtLeast(embeddings[i].vec, seen_embeddings[j],
                                 num, den)
    THEN DedupWalk(embeddings, i + 1, keep_indices, seen_embeddings,
                   num, den)
    ELSE DedupWalk(embeddings, i + 1, Append(keep_indices, i),
                   Append(seen_embeddings, embeddings[i].vec), num, den)

\* deduplicate_by_embeddings(results_with_embeddings, threshold = num / den):
\* the indices to keep
deduplicate_by_embeddings(embeddings, num, den) ==
    DedupWalk(embeddings, 1, <<>>, <<>>, num, den)

\* ------------------------------------------------------ routers/search.py
ThresholdNum == 95
ThresholdDen == 100

\* result.get("content", "")[:500]
First500(text) ==
    IF text = LongText THEN "snippet2 (first 500 characters)" ELSE text

ContentOfNoSnippet(extracted, snippet) ==
    IF Truthy(extracted.content)
    THEN extracted.content
    ELSE "No content available."

\* extracted.get("content") or snippet or "No content available."
ContentOf(extracted, snippet) ==
    IF Truthy(extracted.content) THEN extracted.content
    ELSE IF Truthy(snippet) THEN snippet
    ELSE "No content available."

\* title = extracted["title"] if extracted.get("title")
TitleOf(extracted, title) ==
    IF Truthy(extracted.title) THEN extracted.title ELSE title

\* what metadata_enricher.enrich(result, content) is computed from
Enrich(hit, content) == [rank |-> hit.rank, url |-> hit.url, content |-> content]

\* what citation_formatter.format_citations(title, url, ...) is computed from
FormatCitations(title, url) == [title |-> title, url |-> url]

\* the SearchResult both _process_single_result functions build; rank is the
\* raw hit it was built from
SearchResult(hit, extracted) ==
    LET snippet == First500(hit.content)
        content == ContentOf(extracted, snippet)
        title == TitleOf(extracted, hit.title)
    IN  [kind |-> "result", rank |-> hit.rank,
         title |-> title, url |-> hit.url, content |-> content,
         snippet |-> snippet,
         metadata |-> Enrich(hit, content),
         citation |-> FormatCitations(title, hit.url),
         engine |-> hit.engine,
         summary |-> None, embedding |-> NoEmbedding]

\* search.py _process_single_result: extracted_content.get(url, {}); None
\* when anything raises
ProcessSingleResult(hit, extracted, works) ==
    IF works
    THEN SearchResult(hit,
             IF hit.url \in DOMAIN extracted
             THEN extracted[hit.url] ELSE EmptyExtraction)
    ELSE NoResult

CollectProcessedPrepending(results) ==
    Reverse(SelectSeq(results, LAMBDA r : r.kind = "result"))

RECURSIVE CollectProcessedUntilNone(_)
CollectProcessedUntilNone(results) ==
    IF results = <<>> \/ Head(results).kind # "result"
    THEN <<>>
    ELSE <<Head(results)>> \o CollectProcessedUntilNone(Tail(results))

\* _process_results, lines 137-144: exceptions and None are skipped
CollectProcessed(results) == SelectSeq(results, LAMBDA r : r.kind = "result")

MinLen(a, b, c) ==
    Min({Len(a), Len(b), Len(c)})

CombinedSkippingUnsummarized(results, summaries, embeddings) ==
    SelectSeq([j \in 1 .. MinLen(results, summaries, embeddings) |->
                  [results[j] EXCEPT !.summary = summaries[j],
                                     !.embedding = embeddings[j]]],
              LAMBDA r : r.summary # None)

\* _apply_ai_features, lines 250-266: zip(results, summaries, embeddings)
Combined(results, summaries, embeddings) ==
    [j \in 1 .. MinLen(results, summaries, embeddings) |->
        [results[j] EXCEPT !.summary = summaries[j],
                           !.embedding = embeddings[j]]]

DeduplicateResultsNoContinue(results) ==
    LET keep_indices ==
            DedupWalkNoContinue([j \in DOMAIN results |-> results[j].embedding],
                                1, <<>>, <<>>, ThresholdNum, ThresholdDen)
    IN  [j \in DOMAIN keep_indices |-> results[keep_indices[j]]]

\* _deduplicate_results
DeduplicateResults(results) ==
    LET keep_indices ==
            deduplicate_by_embeddings(
                [j \in DOMAIN results |-> results[j].embedding],
                ThresholdNum, ThresholdDen)
    IN  [j \in DOMAIN keep_indices |-> results[keep_indices[j]]]

AiUnavailableSummarizeOnly(f) == f.summarize /\ ~has_openai

\* search, lines 51-52: ai_requested and not settings.has_openai
AiUnavailable(f) == (f.summarize \/ f.embeddings \/ f.dedup) /\ ~has_openai

DedupWithoutEmbeddingsNever(f) == FALSE

\* search, line 59: dedup and not embeddings
DedupWithoutEmbeddings(f) == f.dedup /\ ~f.embeddings

\* ------------------------------------------------------------ the handlers
\* what one request leaves when it starts: every local is new
NewLocals(m, f) ==
    /\ mode' = m
    /\ flags' = f
    /\ raw_results' = <<>>
    /\ fetch' = <<>>
    /\ extracted_content' = [u \in {} |-> EmptyExtraction]
    /\ tasks' = <<>>
    /\ processed' = <<>>
    /\ result_embeddings' = <<>>
    /\ result_summaries' = <<>>
    /\ events' = <<>>
    /\ cursor' = 0
    /\ current' = "none"
    /\ extractCalls' = 0
    /\ lmCalls' = 0
    /\ overtaken' = FALSE
    /\ searched' = "none"

\* a request of the pipeline on its own: the Rate Gate is left alone
NewRequest(m, f) ==
    /\ NewLocals(m, f)
    /\ UNCHANGED <<openai_api_key, gateVars, fnVars>>

PipeIdle ==
    /\ stage = "idle"
    /\ mode = "none"
    /\ flags = NoFlags
    /\ raw_results = <<>>
    /\ fetch = <<>>
    /\ extracted_content = [u \in {} |-> EmptyExtraction]
    /\ tasks = <<>>
    /\ processed = <<>>
    /\ result_embeddings = <<>>
    /\ result_summaries = <<>>
    /\ response = NoResponse
    /\ events = <<>>
    /\ cursor = 0
    /\ current = "none"
    /\ connected = FALSE
    /\ searchCalls = 0
    /\ extractCalls = 0
    /\ lmCalls = 0
    /\ overtaken = FALSE
    /\ searched = "none"

PipeInit ==
    /\ openai_api_key \in OpenAiKeys
    /\ PipeIdle

\* search, lines 50-63: the two 400 checks of the AI flags, then the search
SearchValidation(f) ==
    /\ connected' = FALSE
    /\ IF AiUnavailable(f)
       THEN /\ response' =
                [status |-> 400, results |-> <<>>,
                 detail |-> "AI features requested but OpenAI API key is not configured"]
            /\ stage' = "idle"
            /\ searchCalls' = 0
       ELSE IF DedupWithoutEmbeddings(f)
       THEN /\ response' =
                [status |-> 400, results |-> <<>>,
                 detail |-> "Deduplication requires embeddings=true"]
            /\ stage' = "idle"
            /\ searchCalls' = 0
       ELSE /\ response' = NoResponse
            /\ stage' = "search"
            /\ searchCalls' = 1

\* GET /api/v1/search, up to the await of searxng_client.search
SearchRequest(f) ==
    /\ stage = "idle"
    /\ NewRequest("batch", f)
    /\ SearchValidation(f)

\* GET /api/v1/search/stream, up to the await of searxng_client.search
StreamRequest ==
    /\ stage = "idle"
    /\ NewRequest("stream", NoFlags)
    /\ connected' = TRUE
    /\ response' = NoResponse
    /\ stage' = "search"
    /\ searchCalls' = 1

SearchFailsAnsweredEmpty ==
    /\ stage = "search"
    /\ IF mode = "batch"
       THEN /\ response' = [status |-> 200, results |-> <<>>, detail |-> ""]
            /\ stage' = "idle"
            /\ UNCHANGED events
       ELSE /\ events' = Append(events,
                                [event |-> "metadata", total_results |-> 0])
            /\ stage' = "closing"
            /\ UNCHANGED response
    /\ searched' = "failed"
    /\ UNCHANGED <<gateVars, fnVars, openai_api_key, mode, flags,
                   raw_results, fetch,
                   extracted_content, tasks, processed, result_embeddings,
                   result_summaries, cursor, current, connected, searchCalls,
                   extractCalls, lmCalls, overtaken>>

\* searxng_client.search raises
SearchFails ==
    /\ stage = "search"
    /\ IF mode = "batch"
       THEN /\ response' = [status |-> 500, results |-> <<>>,
                            detail |-> "Search failed"]
            /\ stage' = "idle"
            /\ UNCHANGED events
       ELSE /\ events' = Append(events, [event |-> "error", url |-> None])
            /\ stage' = "failed"
            /\ UNCHANGED response
    /\ searched' = "failed"
    /\ UNCHANGED <<gateVars, fnVars, openai_api_key, mode, flags,
                   raw_results, fetch,
                   extracted_content, tasks, processed, result_embeddings,
                   result_summaries, cursor, current, connected, searchCalls,
                   extractCalls, lmCalls, overtaken>>

\* searxng_client.search returns no results
SearchEmpty ==
    /\ stage = "search"
    /\ IF mode = "batch"
       THEN /\ response' = [status |-> 200, results |-> <<>>, detail |-> ""]
            /\ stage' = "idle"
            /\ UNCHANGED events
       ELSE /\ events' = Append(events,
                                [event |-> "metadata", total_results |-> 0])
            /\ stage' = "closing"
            /\ UNCHANGED response
    /\ searched' = "empty"
    /\ UNCHANGED <<gateVars, fnVars, openai_api_key, mode, flags,
                   raw_results, fetch,
                   extracted_content, tasks, processed, result_embeddings,
                   result_summaries, cursor, current, connected, searchCalls,
                   extractCalls, lmCalls, overtaken>>

\* searxng_client.search returns hits: batch mode starts one extraction per
\* list element (batch_extract), stream mode the extraction of the first hit
SearchReturns(rs) ==
    /\ stage = "search"
    /\ raw_results' = rs
    /\ IF mode = "batch"
       THEN /\ fetch' = [i \in DOMAIN rs |-> "pending"]
            /\ extractCalls' = Len(rs)
            /\ stage' = "extract"
            /\ UNCHANGED <<cursor, current>>
       ELSE /\ cursor' = 1
            /\ current' = "extracting"
            /\ extractCalls' = 1
            /\ stage' = "stream"
            /\ UNCHANGED fetch
    /\ searched' = "hits"
    /\ UNCHANGED <<gateVars, fnVars, openai_api_key, mode, flags,
                   extracted_content,
                   tasks, processed, result_embeddings, result_summaries,
                   response, events, connected, searchCalls, lmCalls,
                   overtaken>>

\* one extract_from_url of batch_extract's gather finishes
FetchDone(i, works) ==
    /\ stage = "extract"
    /\ i \in DOMAIN fetch
    /\ fetch[i] = "pending"
    /\ fetch' = [fetch EXCEPT ![i] = IF works THEN "ok" ELSE "fail"]
    /\ overtaken' = (overtaken \/ Overtakes(fetch, i, "pending"))
    /\ UNCHANGED <<gateVars, fnVars, searched, openai_api_key, stage, mode,
                   flags, raw_results,
                   extracted_content, tasks, processed, result_embeddings,
                   result_summaries, response, events, cursor, current,
                   connected, searchCalls, extractCalls, lmCalls>>

\* batch_extract's gather is complete: the output dict, and _process_results
\* creates the assembly tasks
ExtractJoin ==
    /\ stage = "extract"
    /\ \A i \in DOMAIN fetch : fetch[i] # "pending"
    /\ extracted_content' =
          BatchExtractOutput(
              [i \in DOMAIN raw_results |-> raw_results[i].url],
              [i \in DOMAIN raw_results |->
                  ExtractFromUrl(raw_results[i].url, fetch[i] = "ok")])
    /\ tasks' = [i \in DOMAIN raw_results |-> Pending]
    /\ stage' = "assemble"
    /\ UNCHANGED <<gateVars, fnVars, searched, openai_api_key, mode, flags,
                   raw_results, fetch,
                   processed, result_embeddings, result_summaries, response,
                   events, cursor, current, connected, searchCalls,
                   extractCalls, lmCalls, overtaken>>

\* the next _process_single_result of the gather runs: it has no await, so
\* the tasks run to their end one after the other, in list order
Assemble(works) ==
    /\ stage = "assemble"
    /\ \E i \in DOMAIN tasks :
          /\ tasks[i] = Pending
          /\ \A k \in 1 .. (i - 1) : tasks[k] # Pending
          /\ tasks' = [tasks EXCEPT
                          ![i] = ProcessSingleResult(raw_results[i],
                                                     extracted_content, works)]
    /\ UNCHANGED <<gateVars, fnVars, searched, openai_api_key, stage, mode,
                   flags, raw_results,
                   fetch, extracted_content, processed, result_embeddings,
                   result_summaries, response, events, cursor, current,
                   connected, searchCalls, extractCalls, lmCalls, overtaken>>

\* the end of _process_results and of search
BatchResponse(results) ==
    [status |-> 200,
     results |-> IF flags.dedup /\ flags.embeddings
                 THEN DeduplicateResults(results)
                 ELSE results,
     detail |-> ""]

\* _apply_ai_features from the embeddings on: one summarize_content per
\* result when summaries are asked for.  calls is the number of Language
\* Model Backend calls so far.
StartSummaries(results, embeddings, calls) ==
    /\ result_embeddings' = embeddings
    /\ result_summaries' =
          [j \in DOMAIN results |->
              IF flags.summarize THEN PendingTask ELSE None]
    /\ lmCalls' = IF flags.summarize THEN calls + Len(results) ELSE calls
    /\ stage' = "summarize"

\* the assembly gather is complete: the filter loop, and then the answer, or
\* the embeddings call, or the summaries
Collect ==
    /\ stage = "assemble"
    /\ \A i \in DOMAIN tasks : tasks[i] # Pending
    /\ LET p == CollectProcessed(tasks)
       IN  /\ processed' = p
           /\ IF ~(flags.summarize \/ flags.embeddings)
              THEN /\ response' = BatchResponse(p)
                   /\ stage' = "idle"
                   /\ UNCHANGED <<result_embeddings, result_summaries, lmCalls>>
              ELSE IF flags.embeddings /\ p # <<>>
              THEN /\ stage' = "embed"
                   /\ lmCalls' = 1
                   /\ UNCHANGED <<response, result_embeddings,
                                  result_summaries>>
              ELSE /\ StartSummaries(p,
                          IF flags.embeddings
                          THEN <<>>
                          ELSE [j \in DOMAIN p |-> NoEmbedding],
                          0)
                   /\ UNCHANGED response
    /\ UNCHANGED <<gateVars, fnVars, searched, openai_api_key, mode, flags,
                   raw_results, fetch,
                   extracted_content, tasks, events, cursor, current,
                   connected, searchCalls, extractCalls, overtaken>>

\* generate_embeddings_batch: the embeddings call raises
EmbedFails ==
    /\ stage = "embed"
    /\ StartSummaries(processed, [j \in DOMAIN processed |-> NoEmbedding],
                      lmCalls)
    /\ UNCHANGED <<gateVars, fnVars, searched, openai_api_key, mode, flags,
                   raw_results, fetch,
                   extracted_content, tasks, processed, response, events,
                   cursor, current, connected, searchCalls, extractCalls,
                   overtaken>>

\* generate_embeddings_batch: the embeddings call answers
EmbedAnswers ==
    /\ stage = "embed"
    /\ \E vs \in EmbeddingAnswers(Len(processed)) :
          StartSummaries(processed,
                         [j \in DOMAIN vs |-> SomeEmbedding(vs[j])],
                         lmCalls)
    /\ UNCHANGED <<gateVars, fnVars, searched, openai_api_key, mode, flags,
                   raw_results, fetch,
                   extracted_content, tasks, processed, response, events,
                   cursor, current, connected, searchCalls, extractCalls,
                   overtaken>>

\* one summarize_content of the summaries gather finishes
SummaryDone(j, works) ==
    /\ stage = "summarize"
    /\ j \in DOMAIN result_summaries
    /\ result_summaries[j] = PendingTask
    /\ result_summaries' =
          [result_summaries EXCEPT
              ![j] = IF works
                     THEN "summary of " \o processed[j].title
                     ELSE None]
    /\ overtaken' = (overtaken \/ Overtakes(result_summaries, j, PendingTask))
    /\ UNCHANGED <<gateVars, fnVars, searched, openai_api_key, stage, mode,
                   flags, raw_results,
                   fetch, extracted_content, tasks, processed,
                   result_embeddings, response, events, cursor, current,
                   connected, searchCalls, extractCalls, lmCalls>>

\* the summaries are in: the zip of _apply_ai_features, _deduplicate_results
\* when asked for, and the answer
Respond ==
    /\ stage = "summarize"
    /\ \A j \in DOMAIN result_summaries : result_summaries[j] # PendingTask
    /\ response' = BatchResponse(Combined(processed, result_summaries,
                                          result_embeddings))
    /\ stage' = "idle"
    /\ UNCHANGED <<gateVars, fnVars, searched, openai_api_key, mode, flags,
                   raw_results, fetch,
                   extracted_content, tasks, processed, result_embeddings,
                   result_summaries, events, cursor, current, connected,
                   searchCalls, extractCalls, lmCalls, overtaken>>

\* ------------------------------------------------------ routers/stream.py
\* what the wait_for around extract_from_url can end in
ExtractionOutcomes == {"ok", "fail", "timeout"}

SnippetOrMarkerNoMarker(snippet) == snippet

\* snippet or "No content available."
SnippetOrMarker(snippet) ==
    IF Truthy(snippet) THEN snippet ELSE "No content available."

StreamProcessSingleResultSummarizing(hit, o, works) ==
    IF ~works
    THEN NoResult
    ELSE LET r == SearchResult(hit, ExtractFromUrl(hit.url, o = "ok"))
         IN  IF has_openai
             THEN [r EXCEPT !.summary = "summary of " \o r.title]
             ELSE r

\* stream.py _process_single_result, after the extraction ended in o
StreamProcessSingleResult(hit, o, works) ==
    IF ~works
    THEN NoResult
    ELSE IF o = "timeout"
    THEN LET r == SearchResult(hit, EmptyExtraction)
         IN  [r EXCEPT !.content = SnippetOrMarker(First500(hit.content))]
    ELSE SearchResult(hit, ExtractFromUrl(hit.url, o = "ok"))

StreamAdvanceMetadataEachHit(evs) ==
    IF cursor < Len(raw_results)
    THEN /\ cursor' = cursor + 1
         /\ current' = "extracting"
         /\ extractCalls' = extractCalls + 1
         /\ events' = Append(evs, [event |-> "metadata",
                                   total_results |-> cursor])
         /\ UNCHANGED stage
    ELSE /\ events' = Append(evs, [event |-> "metadata",
                                   total_results |-> Len(raw_results)])
         /\ stage' = "closing"
         /\ current' = "none"
         /\ UNCHANGED <<cursor, extractCalls>>

\* the loop of _stream_search_results goes on after hit cursor: the next
\* hit's extraction is started, or the metadata event is yielded
StreamAdvance(evs) ==
    IF cursor < Len(raw_results)
    THEN /\ cursor' = cursor + 1
         /\ current' = "extracting"
         /\ extractCalls' = extractCalls + 1
         /\ events' = evs
         /\ UNCHANGED stage
    ELSE /\ events' = Append(evs, [event |-> "metadata",
                                   total_results |-> Len(raw_results)])
         /\ stage' = "closing"
         /\ current' = "none"
         /\ UNCHANGED <<cursor, extractCalls>>

StreamYieldPrefetching(evs) ==
    /\ events' = evs
    /\ current' = "yielded"
    /\ extractCalls' = extractCalls + 1
    /\ UNCHANGED <<stage, cursor>>

\* the generator is suspended at the yield of a result event, until the
\* consumer takes it
StreamYield(evs) ==
    /\ events' = evs
    /\ current' = "yielded"
    /\ UNCHANGED <<stage, cursor, extractCalls>>

\* the extraction of hit cursor ends and the hit is assembled: a result is
\* yielded, a None is passed over
StreamExtracted(o, works) ==
    /\ stage = "stream"
    /\ current = "extracting"
    /\ LET r == StreamProcessSingleResult(raw_results[cursor], o, works)
       IN  /\ fetch' = Append(fetch, o)
           /\ tasks' = Append(tasks, r)
           /\ IF r # NoResult
              THEN StreamYield(Append(events,
                                      [event |-> "result", data |-> r]))
              ELSE StreamAdvance(events)
    /\ UNCHANGED <<gateVars, fnVars, searched, openai_api_key, mode, flags,
                   raw_results, extracted_content, processed,
                   result_embeddings, result_summaries, response, connected,
                   searchCalls, lmCalls, overtaken>>

\* the consumer takes the result event and the generator runs on
StreamResume ==
    /\ stage = "stream"
    /\ current = "yielded"
    /\ StreamAdvance(events)
    /\ UNCHANGED <<gateVars, fnVars, searched, openai_api_key, mode, flags,
                   raw_results, fetch,
                   extracted_content, tasks, processed, result_embeddings,
                   result_summaries, response, connected, searchCalls,
                   lmCalls, overtaken>>

TerminalStagesCompleteOnly == {"closing"}

\* where _stream_search_results yields the done event next: after the
\* metadata event (lines 75-79, 102-109), after the error event (113-114)
TerminalStages == {"closing", "failed"}

\* the done event, after the metadata event or after the error event of a
\* failed search
StreamDone ==
    /\ stage \in TerminalStages
    /\ events' = Append(events,
                        [event |-> "done",
                         status |-> IF stage = "closing"
                                    THEN "complete" ELSE "error"])
    /\ stage' = "idle"
    /\ UNCHANGED <<gateVars, fnVars, searched, openai_api_key, mode, flags,
                   raw_results, fetch,
                   extracted_content, tasks, processed, result_embeddings,
                   result_summaries, response, cursor, current, connected,
                   searchCalls, extractCalls, lmCalls, overtaken>>

DisconnectUnnoticed ==
    /\ mode = "stream"
    /\ stage \in {"search", "stream", "closing", "failed"}
    /\ connected
    /\ connected' = FALSE
    /\ UNCHANGED <<gateVars, fnVars, searched, openai_api_key, stage, mode,
                   flags, raw_results, fetch, extracted_content, tasks,
                   processed, result_embeddings, result_summaries, response,
                   events, cursor, current, searchCalls, extractCalls,
                   lmCalls, overtaken>>

\* the consumer goes away: the StreamingResponse closes the generator where
\* it is suspended
Disconnect ==
    /\ mode = "stream"
    /\ stage \in {"search", "stream", "closing", "failed"}
    /\ connected
    /\ connected' = FALSE
    /\ current' = "closed"
    /\ stage' = "idle"
    /\ UNCHANGED <<gateVars, fnVars, searched, openai_api_key, mode, flags,
                   raw_results, fetch,
                   extracted_content, tasks, processed, result_embeddings,
                   result_summaries, response, events, cursor, searchCalls,
                   extractCalls, lmCalls, overtaken>>

\* ------------------------------------------------------ the specifications
\* no pure function is being called
FnIdle ==
    /\ called = [fn |-> "none"]
    /\ returned = <<>>
    /\ sent = <<>>

Init == GateInit /\ PipeInit /\ FnIdle

PipeNext ==
    \/ \E f \in AllFlags : SearchRequest(f)
    \/ StreamRequest
    \/ SearchFails
    \/ SearchEmpty
    \/ \E rs \in SearchResults : SearchReturns(rs)
    \/ \E i \in 1 .. MaxHits, works \in BOOLEAN : FetchDone(i, works)
    \/ ExtractJoin
    \/ \E works \in BOOLEAN : Assemble(works)
    \/ Collect
    \/ EmbedFails
    \/ EmbedAnswers
    \/ \E j \in 1 .. MaxHits, works \in BOOLEAN : SummaryDone(j, works)
    \/ Respond
    \/ \E o \in ExtractionOutcomes, works \in BOOLEAN : StreamExtracted(o, works)
    \/ StreamResume
    \/ StreamDone
    \/ Disconnect

\* the pipeline, one request after the other
Spec == Init /\ [][PipeNext]_vars

GateNext ==
    \/ Tick
    \/ \E p \in Callers : VerifyApiKey(p)
    \/ \E p \in Callers : Acquire(p)
    \/ \E p \in Callers : Prune(p)
    \/ \E p \in Callers : Decide(p)
    \/ \E p \in Callers : Release(p)
    \/ \E p \in Callers : Finish(p)
    \/ SweepAcquire
    \/ SweepPass
    \/ SweepRelease

\* no request is in the pipeline, and no AI credential is configured
InitGate == GateInit /\ openai_api_key = <<>> /\ PipeIdle /\ FnIdle

\* ---------------------------------- the Rate Gate in front of the handler
AdmittedSearchBeforeGate(p, f) ==
    /\ pc[p] = "acquire"
    /\ \A q \in Callers : pc[q] # "handler"
    /\ stage = "idle"
    /\ NewLocals("batch", f)
    /\ SearchValidation(f)
    /\ pc' = [pc EXCEPT ![p] = "handler"]
    /\ UNCHANGED <<openai_api_key, fnVars, clock, rate_limit_store,
                   rate_limit_lock, api_key, now, outcome, snap, admitted,
                   wake>>

\* GET /api/v1/search of caller p: the dependency
\* verify_api_key_with_rate_limit has returned, and the handler body runs,
\* up to the 400 of the AI flags or the await of searxng_client.search
AdmittedSearch(p, f) ==
    /\ pc[p] = "returned"
    /\ \A q \in Callers : pc[q] # "handler"
    /\ stage = "idle"
    /\ NewLocals("batch", f)
    /\ SearchValidation(f)
    /\ pc' = [pc EXCEPT ![p] = "handler"]
    /\ UNCHANGED <<openai_api_key, fnVars, clock, rate_limit_store,
                   rate_limit_lock, api_key, now, outcome, snap, admitted,
                   wake>>

\* the handler of caller p is over: the 400 is sent, or the rest of the
\* handler, which leaves the Rate Gate alone, has run; its locals are gone
HandlerEnds(p) ==
    /\ pc[p] = "handler"
    /\ stage' = "idle"
    /\ pc' = [pc EXCEPT ![p] = "idle"]
    /\ outcome' = [outcome EXCEPT ![p] = NoOutcome]
    /\ api_key' = [api_key EXCEPT ![p] = ""]
    /\ now' = [now EXCEPT ![p] = 0]
    /\ NewLocals("none", NoFlags)
    /\ response' = NoResponse
    /\ searchCalls' = 0
    /\ UNCHANGED <<openai_api_key, connected, fnVars, clock,
                   rate_limit_store, rate_limit_lock, snap, admitted, wake>>

\* a request the dependency rejected (401, 403, 429) is over: the handler
\* body never runs
RejectedEnds(p) ==
    /\ pc[p] = "raised"
    /\ Finish(p)

AdmitNext ==
    \/ Tick
    \/ \E p \in Callers : VerifyApiKey(p)
    \/ \E p \in Callers : Acquire(p)
    \/ \E p \in Callers : Prune(p)
    \/ \E p \in Callers : Decide(p)
    \/ \E p \in Callers : Release(p)
    \/ \E p \in Callers : RejectedEnds(p)
    \/ \E p \in Callers, f \in AllFlags : AdmittedSearch(p, f)
    \/ \E p \in Callers : HandlerEnds(p)

\* no request anywhere, with or without an AI credential
InitAdmit ==
    /\ GateInit
    /\ openai_api_key \in {<<>>, <<"s", "k">>}
    /\ PipeIdle
    /\ FnIdle

\* batch requests from the dependency to the 400 checks of the handler: the
\* Rate Gate without its sweep, and behind it the handler, one request at a
\* time
SpecAdmit == InitAdmit /\ [][AdmitNext]_vars

\* ------------------------------------------- calls of ai_service functions
\* embeddings to call the functions with: two at similarity 0.970, a third
\* at 0.976 to the second and 0.894 to the first, an orthogonal one, a
\* multiple of the first, the opposite of the first, and one of norm 0
TestEmbeddings ==
    {<<1, 0>>, <<4, 1>>, <<2, 1>>, <<0, 1>>, <<2, 0>>, <<-1, 0>>, <<0, 0>>}

\* the items: with an embedding, or with None for one
TestItems == {SomeEmbedding(v) : v \in TestEmbeddings} \cup {NoEmbedding}

ItemLists == UNION {[1 .. n -> TestItems] : n \in 0 .. MaxItems}

\* thresholds, in hundredths
Thresholds == {-50, 0, 50, 95, 100}

\* ai_service.deduplicate_by_embeddings(results_with_embeddings, threshold)
Deduplicate ==
    /\ called = [fn |-> "none"]
    /\ \E items \in ItemLists, num \in Thresholds :
          /\ called' = [fn |-> "deduplicate_by_embeddings",
                        results_with_embeddings |-> items,
                        threshold |-> num]
          /\ returned' = deduplicate_by_embeddings(items, num, ThresholdDen)
    /\ UNCHANGED <<gateVars, pipeVars, sent>>

\* ai_service.cosine_similarity(vec1, vec2), compared with a threshold
CosineSimilarity ==
    /\ called = [fn |-> "none"]
    /\ \E vec1, vec2 \in TestEmbeddings, num \in Thresholds :
          /\ called' = [fn |-> "cosine_similarity",
                        vec1 |-> vec1, vec2 |-> vec2, threshold |-> num]
          /\ returned' = SimilarityAtLeast(vec1, vec2, num, ThresholdDen)
    /\ UNCHANGED <<gateVars, pipeVars, sent>>

InitDedup == InitGate

DedupNext == Deduplicate \/ CosineSimilarity

\* one call of one of the two functions, with any of the arguments
SpecDedup == InitDedup /\ [][DedupNext]_vars

\* ------------------------------ calls of generate_embeddings_batch
\* AIService.__init__: self.client is set when settings.has_openai
client == has_openai

\* generate_embeddings_batch: max_chars, batch_size
max_chars == 8000
batch_size == 100

\* the most full chunks the texts of one call fill
MaxChunks == 2

MaxTexts == MaxChunks * batch_size + 1

\* the n texts of a call, each unlike the others; the first is longer than
\* max_chars
Texts(n) ==
    [k \in 1 .. n |->
        [id |-> n + 1 - k, chars |-> IF k = 1 THEN max_chars + 1000 ELSE 10]]

\* text[:max_chars]
Truncated(text) ==
    [text EXCEPT !.chars = IF @ > max_chars THEN max_chars ELSE @]

\* the vector the Language Model Backend gives for one text
EmbeddingOf(text) == <<text.id, text.chars>>

\* how one embeddings.create call ends: one embedding for each text sent,
\* the last one missing, or an exception
ChunkOutcomes == {"ok", "short", "fail"}

\* [item.embedding for item in response.data]
BatchEmbeddings(batch, o) ==
    [k \in 1 .. (Len(batch) - IF o = "short" THEN 1 ELSE 0) |->
        SomeEmbedding(EmbeddingOf(batch[k]))]

\* [None] * len(texts)
AllNone(texts) == [k \in DOMAIN texts |-> NoEmbedding]

RECURSIVE EmbedChunksKeepingDone(_, _, _, _, _)
EmbedChunksKeepingDone(truncated_texts, i, outcomes, all_embeddings, batches) ==
    IF i >= Len(truncated_texts)
    THEN [embeddings |-> all_embeddings, batches |-> batches]
    ELSE LET batch == SubSeq(truncated_texts, i + 1,
                             Min({i + batch_size, Len(truncated_texts)}))
             o == outcomes[Len(batches) + 1]
         IN  IF o = "fail"
             THEN [embeddings |->
                      all_embeddings \o
                      [k \in 1 .. (Len(truncated_texts) - Len(all_embeddings))
                          |-> NoEmbedding],
                   batches |-> Append(batches, batch)]
             ELSE EmbedChunksKeepingDone(truncated_texts, i + batch_size,
                      outcomes,
                      all_embeddings \o BatchEmbeddings(batch, o),
                      Append(batches, batch))

\* generate_embeddings_batch, lines 133-152: the loop over
\* range(0, len(truncated_texts), batch_size) inside the try; batches are
\* the inputs of the embeddings.create calls made
RECURSIVE EmbedChunks(_, _, _, _, _)
EmbedChunks(truncated_texts, i, outcomes, all_embeddings, batches) ==
    IF i >= Len(truncated_texts)
    THEN [embeddings |-> all_embeddings, batches |-> batches]
    ELSE LET batch == SubSeq(truncated_texts, i + 1,
                             Min({i + batch_size, Len(truncated_texts)}))
             o == outcomes[Len(batches) + 1]
         IN  IF o = "fail"
             THEN [embeddings |-> AllNone(truncated_texts),
                   batches |-> Append(batches, batch)]
             ELSE EmbedChunks(truncated_texts, i + batch_size, outcomes,
                      all_embeddings \o BatchEmbeddings(batch, o),
                      Append(batches, batch))

\* AIService.generate_embeddings_batch(texts)
generate_embeddings_batch(texts, outcomes) ==
    IF ~client
    THEN [embeddings |-> AllNone(texts), batches |-> <<>>]
    ELSE IF texts = <<>>
    THEN [embeddings |-> <<>>, batches |-> <<>>]
    ELSE EmbedChunks([k \in DOMAIN texts |-> Truncated(texts[k])], 0,
                     outcomes, <<>>, <<>>)

\* the embeddings.create calls n texts can take
CallsFor(n) == (n + batch_size - 1) \div batch_size

GenerateEmbeddingsBatch ==
    /\ called = [fn |-> "none"]
    /\ \E n \in 0 .. MaxTexts :
          \E outcomes \in [1 .. CallsFor(n) -> ChunkOutcomes] :
             LET r == generate_embeddings_batch(Texts(n), outcomes)
             IN  /\ called' = [fn |-> "generate_embeddings_batch",
                               texts |-> Texts(n), outcomes |-> outcomes]
                 /\ returned' = r.embeddings
                 /\ sent' = r.batches
                 /\ lmCalls' = Len(r.batches)
    /\ UNCHANGED <<gateVars, openai_api_key, stage, mode, flags, raw_results,
                   fetch, extracted_content, tasks, processed,
                   result_embeddings, result_summaries, response, events,
                   cursor, current, connected, searchCalls, extractCalls,
                   overtaken, searched>>

\* ------------------------------------------- calls of summarize_content
\* what the call of chat.completions.create ends in: a message, a response
\* whose message content is None, an exception
CompletionOutcomes == {"ok", "empty", "fail"}

SummaryOf(title) == "summary of " \o title

\* AIService.summarize_content(content, title); calls is the number of
\* chat.completions.create calls made
summarize_content(content, title, o) ==
    IF ~client
    THEN [summary |-> None, calls |-> 0]
    ELSE [summary |-> IF o = "ok" THEN SummaryOf(title) ELSE None,
          calls |-> 1]

\* the results summaries are asked for: built from any hit, with the
\* extraction worked or failed
TestResults ==
    {SearchResult(RawHit(i, i), ExtractFromUrl(Url(i), works)) :
        i \in 1 .. MaxHits, works \in BOOLEAN}

SummarizeContent ==
    /\ called = [fn |-> "none"]
    /\ \E r \in TestResults, o \in CompletionOutcomes :
          LET s == summarize_content(r.content, r.title, o)
          IN  /\ called' = [fn |-> "summarize_content",
                            content |-> r.content, title |-> r.title,
                            outcomes |-> <<o>>]
              /\ returned' = s.summary
              /\ lmCalls' = s.calls
              /\ sent' = [k \in 1 .. s.calls |-> <<r.title, r.content>>]
    /\ UNCHANGED <<gateVars, openai_api_key, stage, mode, flags, raw_results,
                   fetch, extracted_content, tasks, processed,
                   result_embeddings, result_summaries, response, events,
                   cursor, current, connected, searchCalls, extractCalls,
                   overtaken, searched>>

\* the AI service is constructed with any of the configurations
InitAi == Init

AiNext == SummarizeContent \/ GenerateEmbeddingsBatch \/ Deduplicate

\* one call of one function of the AI service
SpecAi == InitAi /\ [][AiNext]_vars

\* ------------------------------------------------ calls of extract_from_url
\* Content-Type header values, in pieces: none, HTML, HTML with a charset,
\* JSON, and an MHTML archive (RFC 2557), whose type parameter names the type
\* of its root part
ContentTypes ==
    {<<>>,
     <<"text/html">>,
     <<"text/html", "; charset=utf-8">>,
     <<"application/json">>,
     <<"multipart/related", "; type=\"", "text/html", "\"">>}

\* "text/html" in content_type
HasTextHtml(content_type) ==
    \E k \in DOMAIN content_type : content_type[k] = "text/html"

\* how the GET ends (httpx.HTTPError, another exception, a response), the
\* status and declared type of the response, and whether Document(html) and
\* BeautifulSoup(html, "lxml") can make something of the body
Responses ==
    [get : {"response", "HTTPError", "Exception"},
     status_code : {200, 404},
     content_type : ContentTypes,
     readability : BOOLEAN,
     soup : BOOLEAN]

\* _basic_extraction: the page's text, and its <title> if it has one
BasicPage(url) ==
    [content |-> "text of " \o url,
     title |-> IF url = Url(2) THEN None ELSE "page title of " \o url]

\* extract_from_html, with _basic_extraction as its fallback
extract_from_html(url, r) ==
    IF r.readability
    THEN [value |-> Page(url), calls |-> <<"Document">>]
    ELSE IF r.soup
    THEN [value |-> BasicPage(url), calls |-> <<"Document", "BeautifulSoup">>]
    ELSE [value |-> EmptyExtraction,
          calls |-> <<"Document", "BeautifulSoup">>]

\* ContentExtractor.extract_from_url(url), with the calls it makes
extract_from_url(url, r) ==
    IF r.get # "response"
    THEN [value |-> EmptyExtraction, calls |-> <<"get">>]
    ELSE IF r.status_code >= 400
    THEN [value |-> EmptyExtraction, calls |-> <<"get">>]
    ELSE IF ~HasTextHtml(r.content_type)
    THEN [value |-> EmptyExtraction, calls |-> <<"get">>]
    ELSE LET e == extract_from_html(url, r)
         IN  [value |-> e.value, calls |-> <<"get">> \o e.calls]

ExtractFromUrlCall ==
    /\ called = [fn |-> "none"]
    /\ \E i \in 1 .. MaxHits, r \in Responses :
          LET e == extract_from_url(Url(i), r)
          IN  /\ called' = [fn |-> "extract_from_url", url |-> Url(i),
                            response |-> r]
              /\ returned' = e.value
              /\ sent' = e.calls
    /\ UNCHANGED <<gateVars, pipeVars>>

InitExtract == InitGate

ExtractNext == ExtractFromUrlCall

\* one call of extract_from_url, with any URL and any response
SpecExtract == InitExtract /\ [][ExtractNext]_vars

\* ------------------------------------- calls of _calculate_credibility
\* MetadataEnricher.CREDIBILITY_SCORES, hosts as lists of labels and scores
\* in hundredths
CREDIBILITY_SCORES ==
    {[source |-> <<"arxiv", "org">>, score |-> 95],
     [source |-> <<"scholar", "google", "com">>, score |-> 95],
     [source |-> <<"pubmed", "ncbi", "nlm", "nih", "gov">>, score |-> 95],
     [source |-> <<"semanticscholar", "org">>, score |-> 90],
     [source |-> <<"jstor", "org">>, score |-> 90],
     [source |-> <<"researchgate", "net">>, score |-> 85],
     [source |-> <<"github", "com">>, score |-> 90],
     [source |-> <<"stackoverflow", "com">>, score |-> 85],
     [source |-> <<"developer", "mozilla", "org">>, score |-> 95],
     [source |-> <<"docs", "python", "org">>, score |-> 95],
     [source |-> <<"docs", "microsoft", "com">>, score |-> 90],
     [source |-> <<"reuters", "com">>, score |-> 90],
     [source |-> <<"apnews", "com">>, score |-> 90],
     [source |-> <<"bbc", "com">>, score |-> 85],
     [source |-> <<"nytimes", "com">>, score |-> 85],
     [source |-> <<"theguardian", "com">>, score |-> 85],
     [source |-> <<"wikipedia", "org">>, score |-> 80],
     [source |-> <<"britannica", "com">>, score |-> 85],
     [source |-> <<"techcrunch", "com">>, score |-> 75],
     [source |-> <<"arstechnica", "com">>, score |-> 80],
     [source |-> <<"wired", "com">>, score |-> 75]}

\* the labels hosts are made of
Labels ==
    {"www", "example", "com", "edu", "gov", "org", "wikipedia", "myblog",
     "forum"}

\* the most labels of a host made of them
MaxLabels == 3

\* the hosts: those of the table, each also behind www, and every list of up
\* to MaxLabels labels, the empty host included
Hosts ==
    {e.source : e \in CREDIBILITY_SCORES}
    \cup {<<"www">> \o e.source : e \in CREDIBILITY_SCORES}
    \cup UNION {[1 .. n -> Labels] : n \in 0 .. MaxLabels}

\* the URLs: a scheme prefix or none, a host, and whether urlparse takes it
\* or raises ValueError
Urls ==
    [scheme : {"https://", "http://", ""}, host : Hosts, parses : BOOLEAN]

\* urlparse(url).netloc: what is between "//" and the path, so nothing for
\* a URL without a scheme prefix
netloc(url) == IF url.scheme = "" THEN <<>> ELSE url.host

\* _extract_source: netloc without a leading "www.", "unknown" when urlparse
\* raises
extract_source(url) ==
    IF ~url.parses THEN <<"unknown">>
    ELSE IF Len(netloc(url)) >= 2 /\ Head(netloc(url)) = "www"
    THEN Tail(netloc(url))
    ELSE netloc(url)

\* ".edu" in source, for a label that starts with the text: a dot is before
\* every label but the first
DotIn(label, source) ==
    \E k \in 2 .. Len(source) : source[k] = label

\* keyword in source
KeywordIn(keyword, source) ==
    \E k \in DOMAIN source :
        source[k] \in CASE keyword = "blog" -> {"myblog"}
                        [] keyword = "forum" -> {"forum"}
                        [] keyword = "wiki" -> {"wikipedia"}

Clamp(score) == Max({0, Min({100, score})})

HeuristicScoreStacking(url, source) ==
    Clamp(50
          + (IF url.scheme = "https://" THEN 10 ELSE 0)
          + (IF DotIn("edu", source) THEN 20 ELSE 0)
          + (IF DotIn("gov", source) THEN 25 ELSE 0)
          + (IF DotIn("org", source) THEN 10 ELSE 0)
          - (IF \E w \in {"blog", "forum", "wiki"} : KeywordIn(w, source)
             THEN 10 ELSE 0))

\* _calculate_credibility, lines 246-266, in hundredths
HeuristicScore(url, source) ==
    Clamp(50
          + (IF url.scheme = "https://" THEN 10 ELSE 0)
          + (IF DotIn("edu", source) THEN 20
             ELSE IF DotIn("gov", source) THEN 25
             ELSE IF DotIn("org", source) THEN 10
             ELSE 0)
          - (IF \E w \in {"blog", "forum", "wiki"} : KeywordIn(w, source)
             THEN 10 ELSE 0))

\* MetadataEnricher._calculate_credibility(url, result)
calculate_credibility(url) ==
    LET source == extract_source(url)
    IN  IF \E e \in CREDIBILITY_SCORES : e.source = source
        THEN (CHOOSE e \in CREDIBILITY_SCORES : e.source = source).score
        ELSE HeuristicScore(url, source)

CalculateCredibility ==
    /\ called = [fn |-> "none"]
    /\ \E url \in Urls :
          /\ called' = [fn |-> "_calculate_credibility", url |-> url]
          /\ returned' = calculate_credibility(url)
    /\ UNCHANGED <<gateVars, pipeVars, sent>>

\* ------------------------------------------------------- calls of enrich
\* the number of calendar years the enricher is called in
MaxYears == 2

\* calendar years, counted from the first one the enricher runs in
Years == 1 .. MaxYears

\* datetime.now() at a call: the year and the day of the month
Todays == [year : Years, day : {15, 16}]

\* no date: None, a missing key, a string that is no date
NoDate == [year |-> 0, month |-> 0, day |-> 0]

\* the dates written in full with one of the years
DatesIn(years) == [year : years, month : {1}, day : {15}]

\* result["publishedDate"]: missing or no date, a date in full, or a year
\* and a month only ("2024-01")
PublishedDates ==
    {[parses |-> FALSE, date |-> NoDate]}
    \cup {[parses |-> TRUE, date |-> d] :
             d \in DatesIn({1}) \cup [year : {1}, month : {1}, day : {0}]}

\* the matches of date_patterns in result["content"] + " " + title, one per
\* pattern that matches, in the order of the patterns; their years reach
\* two years past the last year the enricher is called in
TextDates ==
    UNION {[1 .. n -> DatesIn(2 .. MaxYears + 2)] : n \in 0 .. 2}

\* texts as tokens: words and the whitespace between them
Bodies == {<<>>, <<" ">>, <<"solar">>, <<"solar", " ", "power">>}

\* the raw hits enrich is called with: the URL, the date its path holds, the
\* publishedDate key, the dates in content and title, and the content
EnrichHits ==
    [url : {[scheme |-> "https://", host |-> <<"arxiv", "org">>,
             parses |-> TRUE],
            [scheme |-> "http://", host |-> <<"www", "myblog", "com">>,
             parses |-> TRUE]},
     url_date : {NoDate} \cup DatesIn({1}),
     publishedDate : PublishedDates,
     text_dates : TextDates,
     content : {<<>>, <<"solar">>}]

\* date_parser.parse(timestr): the fields the string lacks are taken from
\* datetime.now()
date_parser_parse(date, today) ==
    IF date.day = 0 THEN [date EXCEPT !.day = today.day] ELSE date

\* the loop over date_patterns: the first match whose year is at most next
\* year's, None when there is none
RECURSIVE FirstReasonable(_, _)
FirstReasonable(dates, today) ==
    IF dates = <<>> THEN NoDate
    ELSE IF Head(dates).year <= today.year + 1 THEN Head(dates)
    ELSE FirstReasonable(Tail(dates), today)

\* MetadataEnricher._extract_date(result, url, title), called at `today`
extract_date(result, today) ==
    IF result.publishedDate.parses
    THEN date_parser_parse(result.publishedDate.date, today)
    ELSE IF result.url_date # NoDate THEN result.url_date
    ELSE FirstReasonable(result.text_dates, today)

\* a count or a time that is None
NoNumber == -1

\* len(text.split())
SplitLen(text) == Cardinality({k \in DOMAIN text : text[k] # " "})

\* MetadataEnricher._count_words(text)
count_words(text) == IF text = <<>> THEN NoNumber ELSE SplitLen(text)

\* the words read in a minute
words_per_minute == 225

\* round(n / d) of Python 3: to the nearest integer, a tie to the even one
Round(n, d) ==
    LET q == n \div d
        r == n % d
    IN  IF 2 * r > d \/ (2 * r = d /\ q % 2 = 1) THEN q + 1 ELSE q

\* MetadataEnricher._calculate_reading_time(text)
calculate_reading_time(text) ==
    IF text = <<>> \/ SplitLen(text) = 0 THEN NoNumber
    ELSE Max({1, Round(SplitLen(text), words_per_minute)})

\* MetadataEnricher.enrich(result, original_content), called at `today`:
\* the fields made from the URL, the dates and the word count
enrich(result, original_content, today) ==
    LET full_text == IF original_content # <<>> THEN original_content
                     ELSE result.content
    IN  [published_date |-> extract_date(result, today),
         source |-> extract_source(result.url),
         word_count |-> count_words(full_text),
         credibility_score |-> calculate_credibility(result.url),
         reading_time_minutes |-> calculate_reading_time(full_text)]

\* a call of enrich
EnrichCall ==
    /\ called = [fn |-> "none"]
    /\ \E result \in EnrichHits, original_content \in Bodies,
          today \in Todays :
          /\ called' = [fn |-> "enrich", result |-> result,
                        original_content |-> original_content,
                        today |-> <<today>>]
          /\ returned' = <<enrich(result, original_content, today)>>
    /\ UNCHANGED <<gateVars, pipeVars, sent>>

\* a second call with the same arguments, the same day or later
EnrichAgain ==
    /\ called.fn = "enrich"
    /\ Len(called.today) = 1
    /\ \E today \in Todays :
          /\ today.year >= called.today[1].year
          /\ called' = [called EXCEPT !.today = Append(@, today)]
          /\ returned' = Append(returned,
                                enrich(called.result,
                                       called.original_content, today))
    /\ UNCHANGED <<gateVars, pipeVars, sent>>

InitEnrich == InitGate

EnrichNext == CalculateCredibility \/ EnrichCall \/ EnrichAgain

\* one call of _calculate_credibility, with any URL, or two calls of enrich
\* with the same arguments at two times
SpecEnrich == InitEnrich /\ [][EnrichNext]_vars

\* ------------------------------------------------ calls of _clean_title
\* the most tokens of a title
MaxTokens == 5

\* what titles are made of, as characters: a word, a separator between
\* spaces, a bare hyphen or pipe, a space, a full stop
TitleTokens ==
    {<<"w">>, <<" ", "-", " ">>, <<" ", "|", " ">>, <<"-">>, <<"|">>,
     <<" ">>, <<".">>}

RECURSIVE Flatten(_)
Flatten(tokens) ==
    IF tokens = <<>> THEN <<>> ELSE Head(tokens) \o Flatten(Tail(tokens))

\* the titles, as sequences of characters
Titles ==
    {Flatten(t) : t \in UNION {[1 .. n -> TitleTokens] : n \in 0 .. MaxTokens}}

\* the last position of character c in s, 0 when there is none
LastIndexOf(s, c) == Max({0} \cup {k \in DOMAIN s : s[k] = c})

\* where the run of whitespace that ends just before position k starts
RunStart(s, k) == Min({j \in 1 .. k : \A i \in j .. k - 1 : s[i] = " "})

\* re.sub(r"\s*c\s*[^c]+$", "", s): the one match is at the last c, when
\* something follows it, together with the whitespace before it
RemoveSuffix(s, c) ==
    LET k == LastIndexOf(s, c)
    IN  IF k = 0 \/ k = Len(s) THEN s
        ELSE SubSeq(s, 1, RunStart(s, k) - 1)

\* title += "." unless the title is empty or ends with ".", "!" or "?"
Punctuated(s) ==
    IF s # <<>> /\ s[Len(s)] \notin {".", "!", "?"} THEN Append(s, ".")
    ELSE s

\* CitationFormatter._clean_title(title)
clean_title(title) ==
    Strip(Punctuated(RemoveSuffix(RemoveSuffix(title, "-"), "|")))

CleanTitle ==
    /\ called = [fn |-> "none"]
    /\ \E title \in Titles :
          /\ called' = [fn |-> "_clean_title", title |-> title]
          /\ returned' = clean_title(title)
    /\ UNCHANGED <<gateVars, pipeVars, sent>>

InitCite == InitGate

CiteNext == CleanTitle

\* one call of _clean_title, with any title
SpecCite == InitCite /\ [][CiteNext]_vars

InitStream == InitGate

StreamNext ==
    \/ StreamRequest
    \/ SearchFails
    \/ SearchEmpty
    \/ \E rs \in SearchResults : SearchReturns(rs)
    \/ \E o \in ExtractionOutcomes, works \in BOOLEAN : StreamExtracted(o, works)
    \/ StreamResume
    \/ StreamDone
    \/ Disconnect

\* Every await of _stream_search_results ends: the search call and the
\* extraction's fetch have a client timeout, the extraction is under
\* wait_for, and a consumer that stays connected takes each event yielded.
StreamFair ==
    /\ WF_vars(SearchFails \/ SearchEmpty
                  \/ \E rs \in SearchResults : SearchReturns(rs))
    /\ WF_vars(\E o \in ExtractionOutcomes, works \in BOOLEAN :
                  StreamExtracted(o, works))
    /\ WF_vars(StreamResume)
    /\ WF_vars(StreamDone)

\* stream requests only, one after the other, under fair scheduling
SpecStream == InitStream /\ [][StreamNext]_vars /\ StreamFair

\* the Rate Gate, with nothing in the pipeline
SpecGate == InitGate /\ [][GateNext]_vars

\* asyncio.Lock wakes its waiters in the order they came, so a coroutine
\* that waits for the lock gets it; between taking and leaving the lock a
\* coroutine has no suspension point, so it runs to the end of the block.
\* Callers need not call, and time need not pass.
GateFair ==
    /\ \A p \in Callers : SF_vars(Acquire(p))
    /\ SF_vars(SweepAcquire)
    /\ \A p \in Callers : WF_vars(Prune(p) \/ Decide(p) \/ Release(p))
    /\ WF_vars(SweepPass \/ SweepRelease)

\* the Rate Gate five minutes after the start, when no request was made so
\* far: the first sleep of the sweep is over
InitGateFair ==
    /\ clock = Seconds(SleepSeconds)
    /\ rate_limit_store = <<>>
    /\ rate_limit_lock = FALSE
    /\ pc = [p \in Callers \cup {Sweeper} |->
                IF p = Sweeper THEN "sleep" ELSE "idle"]
    /\ api_key = [p \in Callers |-> ""]
    /\ now = [p \in Callers \cup {Sweeper} |-> 0]
    /\ outcome = [p \in Callers |-> NoOutcome]
    /\ snap = [p \in Callers \cup {Sweeper} |-> <<>>]
    /\ admitted = [k \in ApiKeysList |-> <<>>]
    /\ wake = Seconds(SleepSeconds)
    /\ openai_api_key = <<>>
    /\ PipeIdle
    /\ FnIdle

\* the Rate Gate under fair scheduling, from the sweep's first pass on
SpecGateFair == InitGateFair /\ [][GateNext]_vars /\ GateFair

\* ============================================== properties of the pipeline
\* no AI credential is configured: the key is empty or blank
NoCredential == \A c \in Range(openai_api_key) : c = " "

AnyAiFlag == flags.summarize \/ flags.embeddings \/ flags.dedup

\* a batch request whose search returned hits has been answered
BatchReturned == mode = "batch" /\ stage = "idle" /\ raw_results # <<>>

NoAssemblyFailure == \A i \in DOMAIN tasks : tasks[i] # NoResult

ResultEvents == SelectSeq(events, LAMBDA e : e.event = "result")

\* the extraction task whose entry batch_extract's output holds for hit i's
\* URL: the last one for that URL
LastFetch(i) ==
    Max({k \in DOMAIN raw_results : raw_results[k].url = raw_results[i].url})

\* the content hit i is to carry, told from the outcomes of the fetches
ExpectedContent(i) ==
    LET hit == raw_results[i]
        body == IF fetch[LastFetch(i)] = "ok"
                THEN Page(hit.url).content ELSE None
    IN  IF body \notin {None, ""} THEN body
        ELSE IF First500(hit.content) # "" THEN First500(hit.content)
        ELSE "No content available."

\* C6: a batch request with dedup = true and embeddings = false is answered
\* 400, and for it neither the Search Backend nor the Content Extractor nor
\* the Language Model Backend is called even once.
C6_DedupNeedsEmbeddings ==
    (mode = "batch" /\ flags.dedup /\ ~flags.embeddings)
        => /\ stage = "idle"
           /\ response.status = 400
           /\ searchCalls = 0
           /\ extractCalls = 0
           /\ lmCalls = 0

\* a request with dedup and without embeddings, rejected for that although a
\* credential is configured
C6_Witness ==
    /\ mode = "batch"
    /\ flags.dedup /\ ~flags.embeddings
    /\ ~NoCredential
    /\ response.status = 400
    /\ response.detail = "Deduplication requires embeddings=true"

\* C7: with no AI credential configured, a batch request with any of
\* summarize, embeddings, dedup set is answered 400, and for it neither the
\* Search Backend nor the Language Model Backend is called: the request never
\* goes on with the flag ignored.
C7_NoCredentialRejectsAiFlags ==
    (mode = "batch" /\ NoCredential /\ AnyAiFlag)
        => /\ stage = "idle"
           /\ response.status = 400
           /\ searchCalls = 0
           /\ lmCalls = 0

\* a blank key, and a request that asks for embeddings only, rejected
C7_Witness ==
    /\ mode = "batch"
    /\ openai_api_key = <<" ">>
    /\ flags = [summarize |-> FALSE, embeddings |-> TRUE, dedup |-> FALSE]
    /\ response.status = 400
    /\ searchCalls = 0

\* C8: the results a batch request returns are a subsequence of the raw hits
\* in their order: each result is built from the raw hit of its rank, and of
\* two results the one from the earlier raw hit comes first, whatever order
\* the gathered tasks finished in and whatever was dropped.
C8_ResultsInHitOrder ==
    /\ \A a \in DOMAIN response.results :
          /\ response.results[a].rank \in DOMAIN raw_results
          /\ response.results[a].url = raw_results[response.results[a].rank].url
    /\ \A a, b \in DOMAIN response.results :
          a < b => response.results[a].rank < response.results[b].rank

\* an answer of two results or more, after a gathered task finished before an
\* earlier one, an assembly failure dropped a hit, and summaries were made
C8_Witness ==
    /\ BatchReturned
    /\ response.status = 200
    /\ overtaken
    /\ flags.summarize
    /\ ~NoAssemblyFailure
    /\ Len(response.results) >= 2
    /\ Len(response.results) < Len(raw_results)

\* C9: in batch mode and in stream mode, a request never emits more results
\* than the Search Backend returned raw hits for it, and no raw hit is the
\* origin of two results.
C9_NoMoreResultsThanHits ==
    /\ Len(response.results) <= Len(raw_results)
    /\ Len(ResultEvents) <= Len(raw_results)
    /\ \A a, b \in DOMAIN response.results :
          a # b => response.results[a].rank # response.results[b].rank
    /\ \A a, b \in DOMAIN ResultEvents :
          a # b => ResultEvents[a].data.rank # ResultEvents[b].data.rank

\* a batch answer with deduplication asked for, where the embeddings call
\* failed, so that every result is one without an embedding, and every one of
\* the two or more raw hits is returned
C9_Witness ==
    /\ BatchReturned
    /\ response.status = 200
    /\ flags.dedup
    /\ Len(raw_results) >= 2
    /\ Len(response.results) = Len(raw_results)
    /\ \A a \in DOMAIN response.results : ~response.results[a].embedding.some

EventsOf(type) == SelectSeq(events, LAMBDA e : e.event = type)

\* the stream has yielded a result event for raw hit i
ResultEventFor(i) ==
    \E k \in DOMAIN events :
        /\ events[k].event = "result"
        /\ events[k].data.rank = i

\* the stream has yielded an error event that names raw hit i's URL
ErrorEventFor(i) ==
    \E k \in DOMAIN events :
        /\ events[k].event = "error"
        /\ events[k].url = raw_results[i].url

\* the hit's snippet, or the marker text when the snippet is empty
SnippetOf(i) ==
    IF First500(raw_results[i].content) = ""
    THEN "No content available."
    ELSE First500(raw_results[i].content)

\* the extraction of raw hit i timed out or failed, and the hit was assembled
Degraded(i) ==
    /\ fetch[i] \in {"fail", "timeout"}
    /\ tasks[i] # NoResult

\* C11: in stream mode, a hit whose extraction timed out or failed has a
\* result event with the hit's snippet as content and an error event that
\* names it, and the stream goes on.
C11_DegradedHitReported ==
    mode = "stream"
        => \A i \in DOMAIN fetch :
              Degraded(i)
                 => /\ \E k \in DOMAIN events :
                          /\ events[k].event = "result"
                          /\ events[k].data.rank = i
                          /\ events[k].data.content = SnippetOf(i)
                    /\ ErrorEventFor(i)

\* a stream that ended with its done event, in which the first hit's
\* extraction timed out, the hit was yielded with its snippet, the next hit
\* was processed, and no error event was yielded
C11_Witness ==
    /\ mode = "stream"
    /\ stage = "idle"
    /\ connected
    /\ Len(fetch) >= 2
    /\ fetch[1] = "timeout"
    /\ \E k \in DOMAIN events :
          /\ events[k].event = "result"
          /\ events[k].data.rank = 1
          /\ events[k].data.content = SnippetOf(1)
    /\ EventsOf("error") = <<>>

\* the stream ended with its done event
StreamCompleted ==
    /\ mode = "stream"
    /\ stage = "idle"
    /\ events # <<>>
    /\ events[Len(events)].event = "done"

\* C12: a stream's events are per-item events (result, error), then at most
\* one metadata event, then at most one done event, with nothing after the
\* done event and only the done event after the metadata event; a completed
\* stream has exactly one done event, and exactly one metadata event when
\* the search succeeded.
C12_StreamShape ==
    mode = "stream"
        => /\ \A k \in DOMAIN events :
                 /\ events[k].event \in {"result", "error", "metadata", "done"}
                 /\ events[k].event = "done" => k = Len(events)
                 /\ events[k].event = "metadata"
                       => \A l \in (k + 1) .. Len(events) :
                             events[l].event = "done"
           /\ Len(EventsOf("metadata")) <= 1
           /\ Len(EventsOf("done")) <= 1
           /\ (stage = "idle" /\ connected)
                 => /\ Len(EventsOf("done")) = 1
                    /\ searched \in {"hits", "empty"}
                          => Len(EventsOf("metadata")) = 1

\* a completed stream of two result events or more, one metadata event and
\* the done event
C12_Witness ==
    /\ StreamCompleted
    /\ searched = "hits"
    /\ Len(EventsOf("result")) >= 2
    /\ Len(EventsOf("metadata")) = 1
    /\ events[Len(events)] = [event |-> "done", status |-> "complete"]

\* a stream is under way
StreamOpen == mode = "stream" /\ stage # "idle"

\* C13: a stream that is under way leads to its done event, with status
\* complete or error, unless the consumer disconnects; also when the search
\* fails and when hits fail extraction or assembly.
C13_StreamEndsWithDone ==
    StreamOpen ~> ((StreamCompleted /\ connected) \/ ~connected)

\* a completed stream in which one hit's extraction failed and one hit's
\* assembly failed, with the consumer still connected
C13_Witness ==
    /\ StreamCompleted
    /\ connected
    /\ events[Len(events)].status = "complete"
    /\ \E i \in DOMAIN fetch : fetch[i] = "fail"
    /\ \E i \in DOMAIN tasks : tasks[i] = NoResult

\* C14: in stream mode the hits are processed one at a time in their order:
\* the extractions are started in hit order, at most one is under way, none
\* is under way while a yielded result event waits for the consumer, the
\* extraction of a hit is started only when every earlier hit is done with
\* and its result event, if it has one, has been yielded, and the result
\* events come in the order of their raw hits.
C14_OneHitAtATime ==
    mode = "stream"
        => /\ extractCalls = cursor
           /\ Len(fetch) <= extractCalls
           /\ extractCalls <= Len(fetch) + 1
           /\ current = "yielded" => extractCalls = Len(fetch)
           /\ current = "extracting" => extractCalls = Len(fetch) + 1
           /\ \A i \in 1 .. extractCalls :
                 \A j \in 1 .. (i - 1) :
                    /\ j \in DOMAIN tasks
                    /\ tasks[j] # NoResult => ResultEventFor(j)
           /\ \A k \in DOMAIN events :
                 events[k].event = "result"
                    => events[k].data.rank \in 1 .. Len(fetch)
           /\ \A a, b \in DOMAIN ResultEvents :
                 a < b => ResultEvents[a].data.rank < ResultEvents[b].data.rank

\* the extraction of the third hit is under way, after the result events of
\* the first and the second hit
C14_Witness ==
    /\ mode = "stream"
    /\ stage = "stream"
    /\ current = "extracting"
    /\ cursor = 3
    /\ Len(ResultEvents) = 2

\* the consumer of the stream has disconnected
Abandoned == mode = "stream" /\ ~connected

\* C15: once the consumer has disconnected, the generator is closed, with
\* nothing of the stream under way, and for that stream no extraction is
\* started, no hit is assembled and no event is yielded any more.
C15_NoWorkAfterDisconnect ==
    [][Abandoned'
          => /\ stage' = "idle"
             /\ current' = "closed"
             /\ Abandoned
                   => UNCHANGED <<extractCalls, fetch, tasks, events>>]_vars

\* the consumer disconnected while the extraction of the first of several
\* hits was under way
C15_Witness ==
    /\ Abandoned
    /\ Len(raw_results) >= 2
    /\ extractCalls = 1
    /\ fetch = <<>>
    /\ events = <<>>

\* C16: in stream mode the Language Model Backend is never called, every
\* result event carries no summary and no embedding, and every hit that was
\* assembled has its result event, however similar it is to another one.
C16_StreamHasNoAiStage ==
    mode = "stream"
        => /\ lmCalls = 0
           /\ \A k \in DOMAIN events :
                 events[k].event = "result"
                    => /\ events[k].data.summary = None
                       /\ events[k].data.embedding = NoEmbedding
           /\ \A i \in DOMAIN tasks :
                 tasks[i] # NoResult
                    => \E k \in DOMAIN events :
                          events[k] = [event |-> "result", data |-> tasks[i]]

\* a completed stream, with an AI credential configured, of two hits for the
\* same URL with the same content, both yielded
C16_Witness ==
    /\ StreamCompleted
    /\ has_openai
    /\ Len(raw_results) >= 2
    /\ raw_results[1].url = raw_results[Len(raw_results)].url
    /\ ResultEventFor(1)
    /\ ResultEventFor(Len(raw_results))
    /\ tasks[1].content = tasks[Len(raw_results)].content

\* every hit of the stream has been processed
StreamProcessedAll ==
    /\ mode = "stream"
    /\ raw_results # <<>>
    /\ Len(fetch) = Len(raw_results)

\* the extractions of one URL all ended the same way: with a page, or not
SamePerUrl ==
    \A i, j \in DOMAIN fetch :
        raw_results[i].url = raw_results[j].url
           => ((fetch[i] = "ok") <=> (fetch[j] = "ok"))

\* what batch_extract returns for the stream's hits and their outcomes
BatchOutputOfStream ==
    BatchExtractOutput(
        [i \in DOMAIN raw_results |-> raw_results[i].url],
        [i \in DOMAIN raw_results |->
            ExtractFromUrl(raw_results[i].url, fetch[i] = "ok")])

\* C17: for the same raw hits, the same extraction outcome per URL and the
\* same assembly outcome per hit, what stream mode makes of a hit is, field
\* by field, what batch mode without AI flags makes of it.
C17_StreamEqualsBatch ==
    (StreamProcessedAll /\ SamePerUrl)
        => \A i \in DOMAIN raw_results :
              tasks[i] = ProcessSingleResult(raw_results[i],
                                             BatchOutputOfStream,
                                             tasks[i] # NoResult)

\* three hits, all assembled: one extraction worked, one failed, one timed
\* out
C17_Witness ==
    /\ StreamProcessedAll
    /\ SamePerUrl
    /\ \A i \in DOMAIN tasks : tasks[i] # NoResult
    /\ \E i, j, k \in DOMAIN fetch :
          fetch[i] = "ok" /\ fetch[j] = "fail" /\ fetch[k] = "timeout"

\* ============================== properties of deduplicate_by_embeddings
Deduplicated == called.fn = "deduplicate_by_embeddings"

Items == called.results_with_embeddings

Kept == Range(returned)

\* cosine similarity of items j and i >= the threshold of the call
Similar(j, i) ==
    SimilarityAtLeast(Items[j].vec, Items[i].vec, called.threshold,
                      ThresholdDen)

\* C18: deduplicate_by_embeddings returns the indices of the kept items in
\* input order; an item without an embedding is kept; an item with one is
\* dropped exactly when an earlier kept item's embedding has similarity >=
\* threshold with it.  Hence no two kept embeddings have similarity >=
\* threshold, and of two items at similarity 0.97, at threshold 0.95, only
\* the later one is dropped.
C18_GreedySinglePass ==
    Deduplicated
        => /\ \A a, b \in DOMAIN returned : a < b => returned[a] < returned[b]
           /\ Kept \subseteq DOMAIN Items
           /\ \A i \in DOMAIN Items :
                 IF ~Items[i].some
                 THEN i \in Kept
                 ELSE i \notin Kept
                         <=> \E j \in 1 .. (i - 1) :
                                j \in Kept /\ Items[j].some /\ Similar(j, i)
           /\ \A i, j \in Kept :
                 (i # j /\ Items[i].some /\ Items[j].some) => ~Similar(j, i)
           /\ (/\ Items = <<SomeEmbedding(<<1, 0>>), SomeEmbedding(<<4, 1>>)>>
               /\ called.threshold = 95)
                 => returned = <<1>>

\* at threshold 0.95: the second item is dropped for the first, and the
\* third, similar to the dropped second and not to the first, is kept
C18_Witness ==
    /\ Deduplicated
    /\ called.threshold = 95
    /\ Items = <<SomeEmbedding(<<1, 0>>), SomeEmbedding(<<4, 1>>),
                 SomeEmbedding(<<2, 1>>)>>
    /\ returned = <<1, 3>>

\* every item of the call has an embedding
AllEmbedded == \A i \in DOMAIN Items : Items[i].some

\* b is a multiple of a by a positive factor
SameDirection(a, b) ==
    /\ a[1] * b[2] - a[2] * b[1] = 0
    /\ a[1] * b[1] + a[2] * b[2] > 0

\* the angle between a and b is not obtuse
NotOpposed(a, b) == a[1] * b[1] + a[2] * b[2] >= 0

ZeroNorm(x) == x.some /\ x.vec[1] = 0 /\ x.vec[2] = 0

\* the items of the call that have no embedding of norm 0
OtherIndices == {i \in DOMAIN Items : ~ZeroNorm(Items[i])}

\* the call's result for its other items, as indices into the list of the
\* other items alone
KeptOthers ==
    LET kept == SelectSeq(returned, LAMBDA i : i \in OtherIndices)
    IN  [k \in DOMAIN kept |->
            Cardinality({j \in OtherIndices : j <= kept[k]})]

\* a zero-norm embedding's similarity to anything is 0: it is >= the
\* threshold exactly when the threshold is not positive
ZeroSimilarity ==
    (/\ called.fn = "cosine_similarity"
     /\ \/ ZeroNorm(SomeEmbedding(called.vec1))
        \/ ZeroNorm(SomeEmbedding(called.vec2)))
        => (returned <=> called.threshold <= 0)

\* the items with zero-norm embeddings are kept, and the other items are
\* kept or dropped as they are in a list without the zero-norm items
ZeroNormIgnored ==
    /\ \A i \in DOMAIN Items : ZeroNorm(Items[i]) => i \in Kept
    /\ KeptOthers =
          deduplicate_by_embeddings(
              SelectSeq(Items, LAMBDA x : ~ZeroNorm(x)),
              called.threshold, ThresholdDen)

\* C20 as stated: the similarity of a zero-norm embedding with any
\* embedding is 0, and for any threshold an item with a zero-norm embedding
\* is never dropped by deduplicate_by_embeddings and never makes it drop a
\* later item.
C20_ZeroNormNeverDuplicate ==
    /\ ZeroSimilarity
    /\ Deduplicated => ZeroNormIgnored

\* C20, amended: the similarity of a zero-norm embedding with any embedding
\* is 0, and for any threshold greater than 0 an item with a zero-norm
\* embedding is never dropped by deduplicate_by_embeddings and never makes
\* it drop a later item.
C20_ZeroNormNeverDuplicateAbove0 ==
    /\ ZeroSimilarity
    /\ (Deduplicated /\ called.threshold > 0) => ZeroNormIgnored

\* at threshold 0.95, two items with zero-norm embeddings and one other
\* between them, all kept
C20_Witness ==
    /\ Deduplicated
    /\ called.threshold = 95
    /\ Items = <<SomeEmbedding(<<0, 0>>), SomeEmbedding(<<1, 0>>),
                 SomeEmbedding(<<0, 0>>)>>
    /\ returned = <<1, 2, 3>>


\* ------------------------------------------------------------------ C21
\* a call of generate_embeddings_batch with a client has returned
Embedded == called.fn = "generate_embeddings_batch" /\ client

\* the batches sent, one after the other
RECURSIVE Flat(_)
Flat(batches) ==
    IF batches = <<>> THEN <<>> ELSE Head(batches) \o Flat(Tail(batches))

\* the call whose k-th embeddings.create raised
FailedAt(k) == k \in DOMAIN sent /\ called.outcomes[k] = "fail"

\* every embeddings.create call made answered with a vector for each text
AnsweredInFull == \A k \in DOMAIN sent : called.outcomes[k] = "ok"

CalledWithoutCredential == called.fn # "none" /\ ~client

\* keep_indices names every item
KeepsEveryItem ==
    returned = [j \in DOMAIN called.results_with_embeddings |-> j]

\* C22: with no backend credential configured every operation of the AI
\* Augmenter is a no-op: summarize_content returns None,
\* generate_embeddings_batch returns None for each input text,
\* deduplicate_by_embeddings keeps every item, and no call to the Language
\* Model Backend is made.
C22_NoCredentialNoOp ==
    CalledWithoutCredential =>
        /\ lmCalls = 0
        /\ sent = <<>>
        /\ called.fn = "summarize_content" => returned = None
        /\ called.fn = "generate_embeddings_batch" =>
              returned = AllNone(called.texts)
        /\ called.fn = "deduplicate_by_embeddings" => KeepsEveryItem

\* with no credential, the two operations that would call the backend return
\* None without calling it; deduplicate_by_embeddings, which has no check of
\* the credential, keeps every item when no item has an embedding
C22_BackendCallsGated ==
    CalledWithoutCredential =>
        /\ lmCalls = 0
        /\ sent = <<>>
        /\ called.fn = "summarize_content" => returned = None
        /\ called.fn = "generate_embeddings_batch" =>
              returned = AllNone(called.texts)
        /\ (/\ called.fn = "deduplicate_by_embeddings"
            /\ \A j \in DOMAIN called.results_with_embeddings :
                  ~called.results_with_embeddings[j].some)
           => KeepsEveryItem

\* no credential, and deduplicate_by_embeddings dropped the second of two
\* items with the same embedding
C22_Witness ==
    /\ CalledWithoutCredential
    /\ called.fn = "deduplicate_by_embeddings"
    /\ called.threshold = ThresholdNum
    /\ Len(called.results_with_embeddings) = 2
    /\ called.results_with_embeddings[1] = called.results_with_embeddings[2]
    /\ returned = <<1>>


\* ------------------------------------------------------------------ C23
\* a batch request that asked for summaries has been answered after its
\* search returned hits
Summarized == BatchReturned /\ flags.summarize

\* the summarize_content call for processed[j] failed
SummaryFailed(j) == result_summaries[j] = None

\* the Language Model Backend calls made before the summaries
EmbeddingCalls == IF flags.embeddings /\ processed # <<>> THEN 1 ELSE 0

\* what the request would answer had every summarize_content call worked
AnswerAllSummarized ==
    BatchResponse(
        Combined(processed,
                 [j \in DOMAIN processed |->
                     "summary of " \o processed[j].title],
                 result_embeddings)).results

\* the place in processed of the result built from raw hit `rank`
ProcessedAt(rank) == CHOOSE j \in DOMAIN processed : processed[j].rank = rank

\* C23: in batch mode with summarize = true one summary call is made for
\* each item that survived assembly, all of them before any has finished;
\* the request is answered 200 whichever of them fail; the answer is the one
\* there would be had none failed, except that an item whose call failed has
\* summary None: no item is missing because of it and no other item's
\* summary differs; with no dedup and an embedding for each item, every
\* surviving item is in the answer.
C23_SummaryFailureDegradesOneItem ==
    /\ (mode = "batch" /\ stage = "summarize" /\ flags.summarize)
          => /\ Len(result_summaries) = Len(processed)
             /\ lmCalls = EmbeddingCalls + Len(processed)
    /\ Summarized
          => /\ response.status = 200
             /\ Len(response.results) = Len(AnswerAllSummarized)
             /\ \A a \in DOMAIN response.results :
                   LET r == response.results[a]
                       j == ProcessedAt(r.rank)
                   IN  /\ r.summary = IF SummaryFailed(j)
                                      THEN None
                                      ELSE "summary of " \o processed[j].title
                       /\ r = [AnswerAllSummarized[a] EXCEPT
                                  !.summary = r.summary]
             /\ (~flags.dedup /\ Len(result_embeddings) = Len(processed))
                   => /\ Len(response.results) = Len(processed)
                      /\ \A j \in DOMAIN processed :
                            response.results[j].rank = processed[j].rank

\* three items were summarized, the call for the second failed, after a later
\* call had finished, and the answer has the three, the second without a
\* summary and the others with theirs
C23_Witness ==
    /\ Summarized
    /\ overtaken
    /\ Len(processed) = 3
    /\ Len(response.results) = 3
    /\ response.results[1].summary # None
    /\ response.results[2].summary = None
    /\ response.results[3].summary # None


\* ------------------------------------------------------------------ C24
\* batch_extract has been called with the URLs of the raw hits
BatchExtractCalled == mode = "batch" /\ raw_results # <<>>

\* the distinct URLs of batch_extract's input
DistinctUrls == {raw_results[i].url : i \in DOMAIN raw_results}

\* C24: batch_extract issues exactly one extraction per distinct URL of its
\* input: a URL that occurs in several raw hits is fetched once.
C24_OneExtractionPerDistinctUrl ==
    BatchExtractCalled
        => /\ extractCalls = Cardinality(DistinctUrls)
           /\ Len(fetch) = Cardinality(DistinctUrls)

\* what the code does: one extraction per element of the list
C24_OneExtractionPerOccurrence ==
    BatchExtractCalled
        => /\ extractCalls = Len(raw_results)
           /\ Len(fetch) = Len(raw_results)

\* two raw hits have the same URL, and it was fetched twice, with different
\* outcomes
C24_Witness ==
    /\ BatchExtractCalled
    /\ \E i, k \in DOMAIN raw_results :
          /\ i < k
          /\ raw_results[i].url = raw_results[k].url
          /\ fetch[i] = "ok"
          /\ fetch[k] = "fail"
    /\ extractCalls > Cardinality(DistinctUrls)


\* ------------------------------------------------------------------ C25
\* batch_extract has returned
BatchExtractReturned == BatchExtractCalled /\ stage # "extract"

\* C25: batch_extract returns a map with an entry for every input URL; a URL
\* whose extraction fails gets the empty entry and every other URL its own
\* extraction result; the call never fails, and every extraction runs to its
\* own end whatever the others do.
C25_PartialFailureJoin ==
    BatchExtractReturned
        => /\ DOMAIN extracted_content = DistinctUrls
           /\ response.status # 500
           /\ \A i \in DOMAIN raw_results :
                 LET url == raw_results[i].url
                 IN  /\ fetch[i] \in {"ok", "fail"}
                     /\ fetch[i] = "fail"
                           => extracted_content[url] = EmptyExtraction
                     /\ (\A k \in DOMAIN raw_results :
                            raw_results[k].url = url => fetch[k] = "ok")
                           => extracted_content[url] = Page(url)

\* what the code does: the same, with the entry of a URL that of the last
\* extraction made for it
C25_JoinKeepsLastExtraction ==
    BatchExtractReturned
        => /\ DOMAIN extracted_content = DistinctUrls
           /\ response.status # 500
           /\ \A i \in DOMAIN raw_results :
                 LET url == raw_results[i].url
                 IN  /\ fetch[i] \in {"ok", "fail"}
                     /\ extracted_content[url] =
                           IF fetch[LastFetch(i)] = "ok"
                           THEN Page(url) ELSE EmptyExtraction

\* a URL was extracted twice, the first extraction failed, the second worked
\* after it, and the URL's entry is the page
C25_Witness ==
    /\ BatchExtractReturned
    /\ \E i, k \in DOMAIN raw_results :
          /\ i < k
          /\ raw_results[i].url = raw_results[k].url
          /\ fetch[i] = "fail"
          /\ fetch[k] = "ok"
          /\ extracted_content[raw_results[i].url] = Page(raw_results[i].url)


\* ------------------------------------------------------------------ C26
Extracted == called.fn = "extract_from_url"

\* the media type the response declares is text/html
DeclaresHtml(content_type) ==
    content_type # <<>> /\ Head(content_type) = "text/html"

Parsed == \E k \in DOMAIN sent : sent[k] \in {"Document", "BeautifulSoup"}

\* the fetch failed, or the status is an error, or readability and the
\* fallback both failed to parse
FetchOrParseFailed ==
    \/ called.response.get # "response"
    \/ called.response.status_code >= 400
    \/ ~called.response.readability /\ ~called.response.soup

\* C26: extract_from_url returns a value in every case; after a network
\* failure, an HTTP error status, a declared media type other than HTML, or
\* a parse failure of both the readability and the fallback path the value is
\* {content: None, title: None}; and a response that does not declare HTML
\* is never parsed.
C26_FailuresGiveEmptyEntry ==
    Extracted
        => /\ DOMAIN returned = {"content", "title"}
           /\ FetchOrParseFailed => returned = EmptyExtraction
           /\ ~DeclaresHtml(called.response.content_type)
                 => /\ returned = EmptyExtraction
                    /\ ~Parsed

\* what the code does: the same, for a Content-Type value in which the text
\* "text/html" does not occur anywhere
C26_NoTextHtmlGivesEmptyEntry ==
    Extracted
        => /\ DOMAIN returned = {"content", "title"}
           /\ FetchOrParseFailed => returned = EmptyExtraction
           /\ ~HasTextHtml(called.response.content_type)
                 => /\ returned = EmptyExtraction
                    /\ ~Parsed

\* a response that declares multipart/related was parsed and its text
\* returned
C26_Witness ==
    /\ Extracted
    /\ called.response.get = "response"
    /\ called.response.status_code = 200
    /\ Parsed
    /\ Head(called.response.content_type) = "multipart/related"
    /\ returned # EmptyExtraction


\* ------------------------------------------------------------------ C27
\* the assembly of raw hit i raised
AssemblyFailed(i) == tasks[i] = NoResult

\* the raw hits whose assembly did not raise, in their order
Assembled ==
    SelectSeq([i \in DOMAIN raw_results |-> i],
              LAMBDA i : ~AssemblyFailed(i))

\* the raw hits the results of a list were built from
RanksOf(results) == [a \in DOMAIN results |-> results[a].rank]

\* nothing after the assembly removes an item: no deduplication, and an
\* embedding for each item
NothingRemovedLater ==
    /\ ~flags.dedup
    /\ flags.embeddings => Len(result_embeddings) = Len(processed)

\* C27: in batch mode an exception while one item is assembled drops that
\* item and no other: the request is answered 200, the items that go on to
\* the AI stage are the raw hits whose assembly did not raise, in their
\* order, no item whose assembly raised is in the answer, and every other
\* item is, unless deduplication or a short embeddings answer removes it.
C27_AssemblyFailureDropsOneItem ==
    BatchReturned
        => /\ response.status = 200
           /\ RanksOf(processed) = Assembled
           /\ \A a \in DOMAIN response.results :
                 ~AssemblyFailed(response.results[a].rank)
           /\ NothingRemovedLater => RanksOf(response.results) = Assembled

\* of three raw hits the second raised while it was assembled, and the
\* answer is the first and the third
C27_Witness ==
    /\ BatchReturned
    /\ response.status = 200
    /\ Len(raw_results) = 3
    /\ AssemblyFailed(2)
    /\ RanksOf(response.results) = <<1, 3>>


\* ------------------------------------------------------------------ C28
\* the results a request has emitted so far, in either mode
EmittedResults ==
    IF mode = "batch"
    THEN response.results
    ELSE [a \in DOMAIN ResultEvents |-> ResultEvents[a].data]

\* what the extraction made for raw hit i produced
OwnExtraction(i) ==
    IF fetch[i] = "ok" THEN Page(raw_results[i].url) ELSE EmptyExtraction

\* what the extraction whose result the assembly of raw hit i reads produced:
\* in batch mode the last one made for the hit's URL
ReadExtraction(i) ==
    IF mode = "batch"
    THEN IF fetch[LastFetch(i)] = "ok"
         THEN Page(raw_results[i].url) ELSE EmptyExtraction
    ELSE OwnExtraction(i)

\* the body if there is a non-empty one, else the snippet if it is not empty,
\* else the marker
BodyElseSnippetElseMarker(e, hit) ==
    IF e.content \notin {None, ""} THEN e.content
    ELSE IF First500(hit.content) # "" THEN First500(hit.content)
    ELSE "No content available."

ExtractedTitleElseOwn(e, hit) ==
    IF e.title \notin {None, ""} THEN e.title ELSE hit.title

\* C28: for every result emitted in either mode, content is the body text
\* the hit's extraction produced when that is non-empty, else the hit's
\* snippet when that is non-empty, else "No content available."; content is
\* never empty; and the title is the extracted title when there is one, else
\* the hit's own title.
C28_ContentFallbackChain ==
    \A a \in DOMAIN EmittedResults :
        LET r == EmittedResults[a]
            hit == raw_results[r.rank]
        IN  /\ r.content = BodyElseSnippetElseMarker(OwnExtraction(r.rank), hit)
            /\ r.content \notin {None, ""}
            /\ r.title = ExtractedTitleElseOwn(OwnExtraction(r.rank), hit)

\* what the code does: the same, where in batch mode the extraction of a hit
\* is the last one made for its URL
C28_ContentFallbackChainPerUrl ==
    \A a \in DOMAIN EmittedResults :
        LET r == EmittedResults[a]
            hit == raw_results[r.rank]
        IN  /\ r.content = BodyElseSnippetElseMarker(ReadExtraction(r.rank), hit)
            /\ r.content \notin {None, ""}
            /\ r.snippet = First500(hit.content)
            /\ r.title = ExtractedTitleElseOwn(ReadExtraction(r.rank), hit)

\* a batch answer in which the first hit's extraction produced a body and a
\* title, and the result built from it carries its snippet and its own title,
\* the URL's later extraction having failed
C28_Witness ==
    /\ BatchReturned
    /\ Len(response.results) >= 1
    /\ response.results[1].rank = 1
    /\ fetch[1] = "ok"
    /\ fetch[LastFetch(1)] = "fail"
    /\ response.results[1].content = First500(raw_results[1].content)
    /\ response.results[1].title = raw_results[1].title


\* ------------------------------------------------------------------ C29
\* the request's call of the Search Backend raised
SearchFailed == searched = "failed"

ErrorEvent == [event |-> "error", url |-> None]

DoneError == [event |-> "done", status |-> "error"]

\* C29: when the Search Backend call fails, the request makes no second
\* search call, no extraction and no Language Model Backend call; in batch
\* mode it is answered with one failure (500) and no result list; in stream
\* mode its events are one error event and then the done event with status
\* error, and nothing else: no result and no metadata event.
C29_SearchFailureFailsRequest ==
    SearchFailed
        => /\ searchCalls = 1
           /\ extractCalls = 0
           /\ lmCalls = 0
           /\ fetch = <<>> /\ tasks = <<>>
           /\ mode = "batch"
                 => /\ stage = "idle"
                    /\ response.status = 500
                    /\ response.results = <<>>
           /\ mode = "stream"
                 => /\ EventsOf("result") = <<>>
                    /\ EventsOf("metadata") = <<>>
                    /\ IF stage = "failed" \/ ~connected
                       THEN events \in {<<ErrorEvent>>, <<ErrorEvent, DoneError>>}
                       ELSE events = <<ErrorEvent, DoneError>>

\* a stream whose search failed has ended, the consumer still there, with
\* the error event and the done event
C29_Witness ==
    /\ SearchFailed
    /\ mode = "stream"
    /\ stage = "idle"
    /\ connected
    /\ events = <<ErrorEvent, DoneError>>


\* ------------------------------------------------------------------ C30
Scored == called.fn = "_calculate_credibility"

\* the host the score is looked up and computed for: the host of the URL
\* without a leading www, none for a URL that has no "scheme://" before it,
\* and "unknown" for a URL that cannot be parsed
ScoredHost ==
    IF ~called.url.parses THEN <<"unknown">>
    ELSE IF called.url.scheme = "" THEN <<>>
    ELSE IF Len(called.url.host) >= 2 /\ called.url.host[1] = "www"
    THEN SubSeq(called.url.host, 2, Len(called.url.host))
    ELSE called.url.host

InTable == \E e \in CREDIBILITY_SCORES : e.source = ScoredHost

\* the host has the label after a dot
HasSuffixLabel(label) ==
    \E k \in 2 .. Len(ScoredHost) : ScoredHost[k] = label

\* +0.2 for .edu, or +0.25 for .gov, or +0.1 for .org, in hundredths
DomainBonus ==
    IF HasSuffixLabel("edu") THEN 20
    ELSE IF HasSuffixLabel("gov") THEN 25
    ELSE IF HasSuffixLabel("org") THEN 10
    ELSE 0

HttpsBonus == IF called.url.scheme = "https://" THEN 10 ELSE 0

Penalty ==
    IF \E k \in DOMAIN ScoredHost :
          ScoredHost[k] \in {"myblog", "forum", "wikipedia"}
    THEN 10 ELSE 0

\* C30: the credibility score is in [0, 1] for every URL; a host of the
\* static table gets its table score, and every other URL, one with an empty
\* host or one urlparse rejects included, gets 0.5 + 0.1 for https, + 0.2
\* for .edu or + 0.25 for .gov or + 0.1 for .org, - 0.1 for blog, forum or
\* wiki in the host, clamped to [0, 1]  (scores in hundredths).
C30_CredibilityInUnitInterval ==
    Scored
        => /\ returned \in 0 .. 100
           /\ \A e \in CREDIBILITY_SCORES :
                 e.source = ScoredHost => returned = e.score
           /\ ~InTable
                 => LET score == 50 + HttpsBonus + DomainBonus - Penalty
                    IN  returned = IF score < 0 THEN 0
                                   ELSE IF score > 100 THEN 100
                                   ELSE score

\* an https URL whose host is in no table, under .gov and with "blog" in it,
\* scored 0.5 + 0.1 + 0.25 - 0.1
C30_Witness ==
    /\ Scored
    /\ called.url = [scheme |-> "https://", host |-> <<"myblog", "gov">>,
                     parses |-> TRUE]
    /\ returned = 75

\* ---------------------------------------------------------------- C31
\* enrich has been called twice with the same arguments
CalledTwice == called.fn = "enrich" /\ Len(returned) = 2

\* the date of the metadata is read from the arguments alone: from a
\* publishedDate written in full, from the URL, or there is no date at all
DateFromArguments ==
    \/ called.result.publishedDate.parses
       /\ called.result.publishedDate.date.day # 0
    \/ ~called.result.publishedDate.parses
       /\ called.result.url_date # NoDate
    \/ ~called.result.publishedDate.parses
       /\ called.result.url_date = NoDate
       /\ called.result.text_dates = <<>>

\* C31: two calls of enrich with identical (raw hit, body text), made at any
\* two times, return identical metadata.
C31_EnrichIsPure ==
    CalledTwice => returned[1] = returned[2]

\* What holds of the two calls: every field but published_date is the same,
\* published_date is the same when it is read from the arguments alone or
\* the two calls see the same year and day.
C31_EnrichIsPureButForTheDate ==
    CalledTwice =>
        /\ \A f \in {"source", "word_count", "credibility_score",
                     "reading_time_minutes"} :
              returned[1][f] = returned[2][f]
        /\ (DateFromArguments \/ called.today[1] = called.today[2])
              => returned[1] = returned[2]

\* two calls with the same arguments, a year apart, whose dates differ: the
\* text holds a date two years past the first call's year
C31_Witness ==
    /\ CalledTwice
    /\ called.today[2].year = called.today[1].year + 1
    /\ returned[1].published_date = NoDate
    /\ returned[2].published_date # NoDate

\* ---------------------------------------------------------------- C32
\* _clean_title has returned
Cleaned == called.fn = "_clean_title"

\* s holds " c Name": the separator c between spaces with a word after it
HasSiteSuffix(s, c) ==
    \E k \in DOMAIN s :
        /\ s[k] = c
        /\ k > 1 /\ s[k - 1] = " "
        /\ k < Len(s) /\ s[k + 1] = " "
        /\ \E j \in k + 2 .. Len(s) : s[j] = "w"

\* how often character c is in s
CountOf(s, c) == Cardinality({k \in DOMAIN s : s[k] = c})

\* C32: for every input title, no trailing " - SiteName" or " | SiteName"
\* fragment remains after _clean_title, also for titles with several such
\* separators.
C32_NoSiteSuffixRemains ==
    Cleaned =>
        /\ ~HasSiteSuffix(returned, "-")
        /\ ~HasSiteSuffix(returned, "|")

\* What holds: one suffix of each kind is removed, the one at the last
\* hyphen and then the one at the last pipe, so a title with at most one
\* hyphen and at most one pipe keeps no site suffix; and the cleaned title
\* is a beginning of the title, with a full stop added unless it is empty
\* or ends with one.
C32_OneSuffixOfEachKindRemoved ==
    Cleaned =>
        /\ (CountOf(called.title, "-") <= 1 /\ CountOf(called.title, "|") <= 1)
              => /\ ~HasSiteSuffix(returned, "-")
                 /\ ~HasSiteSuffix(returned, "|")
        /\ \E n \in 0 .. Len(called.title) :
              returned = Strip(Punctuated(SubSeq(called.title, 1, n)))

\* a title with two " - " separators, of which the first remains
C32_Witness ==
    /\ Cleaned
    /\ called.title = <<"w", " ", "-", " ", "w", " ", "-", " ", "w">>
    /\ returned = <<"w", " ", "-", " ", "w", ".">>

\* ---------------------------------------------------------------- C33
\* the number of result events among the first k events
ResultEventsBefore(k) ==
    Cardinality({l \in 1 .. k - 1 : events[l].event = "result"})

\* C33: in stream mode the result count of the metadata event equals the
\* number of result events emitted before it in the same stream.
C33_MetadataCountsResultEvents ==
    mode = "stream"
        => \A k \in DOMAIN events :
              events[k].event = "metadata"
                 => events[k].total_results = ResultEventsBefore(k)

\* What holds: the count of the metadata event is the number of raw hits
\* the Search Backend returned; it is the number of result events when every
\* hit was assembled, and larger by the number of hits passed over
\* otherwise.
C33_MetadataCountsRawHits ==
    mode = "stream"
        => \A k \in DOMAIN events :
              events[k].event = "metadata"
                 => /\ events[k].total_results = Len(raw_results)
                    /\ Len(tasks) = Len(raw_results)
                    /\ events[k].total_results
                          = ResultEventsBefore(k)
                            + Cardinality({i \in DOMAIN tasks :
                                              tasks[i] = NoResult})

\* a completed stream of two hits or more in which one hit's assembly
\* failed: fewer result events than the metadata event counts
C33_Witness ==
    /\ StreamCompleted
    /\ connected
    /\ Len(raw_results) >= 2
    /\ Len(EventsOf("result")) = Len(raw_results) - 1
    /\ \E k \in DOMAIN events :
          /\ events[k].event = "metadata"
          /\ events[k].total_results = Len(raw_results)

\* ---------------------------------------------------------------- C34
\* the stream has yielded its metadata event
MetadataYielded == \E k \in DOMAIN events : events[k].event = "metadata"

\* C34: in stream mode every raw hit the Search Backend returned has an
\* event of its own, a result event or an error event that names its URL,
\* before the metadata event.
C34_NoHitSkippedSilently ==
    (mode = "stream" /\ MetadataYielded)
        => \A i \in DOMAIN raw_results :
              ResultEventFor(i) \/ ErrorEventFor(i)

\* What holds: when the metadata event is yielded every raw hit has been
\* processed, in order; a hit that was assembled has its result event, and
\* a hit whose assembly failed has no event at all.
C34_AssembledHitsHaveResultEvents ==
    (mode = "stream" /\ MetadataYielded)
        => /\ Len(tasks) = Len(raw_results)
           /\ \A i \in DOMAIN raw_results :
                 /\ tasks[i] # NoResult => ResultEventFor(i)
                 /\ tasks[i] = NoResult
                       => ~ResultEventFor(i) /\ EventsOf("error") = <<>>

\* a stream past its metadata event whose first hit was passed over without
\* an event, and whose later hit has its result event
C34_Witness ==
    /\ mode = "stream"
    /\ MetadataYielded
    /\ Len(raw_results) >= 2
    /\ tasks[1] = NoResult
    /\ ~ResultEventFor(1)
    /\ ~ErrorEventFor(1)
    /\ ResultEventFor(2)

\* ---------------------------------------------------------------- C35
\* _apply_ai_features has returned in a batch request
AiStageReturned ==
    BatchReturned /\ (flags.summarize \/ flags.embeddings)

\* what _apply_ai_features returned
AiStageOutput == Combined(processed, result_summaries, result_embeddings)

\* a result without what the AI stage adds
WithoutAi(r) == [r EXCEPT !.summary = None, !.embedding = NoEmbedding]

\* the first n results of the AI stage's output are its first n inputs, with
\* nothing but summary and embedding changed
SameItems(n) ==
    \A j \in 1 .. n : WithoutAi(AiStageOutput[j]) = WithoutAi(processed[j])

\* C35: _apply_ai_features returns exactly one result per input result, in
\* the same order, with every field other than summary and embedding
\* unchanged, whatever the Language Model Backend returns and however it
\* fails, a short embeddings answer included.
C35_AiStageKeepsEveryItem ==
    AiStageReturned
        => /\ Len(AiStageOutput) = Len(processed)
           /\ SameItems(Len(processed))
           /\ ~flags.dedup => response.results = AiStageOutput

\* What holds: the output is the inputs in order, up to the number of
\* embeddings generate_embeddings_batch returned, with nothing but summary
\* and embedding changed; no item is missing when embeddings were not asked
\* for, when the embeddings call failed, or when it answered with one vector
\* per text.
C35_AiStageKeepsItemsWithEmbeddings ==
    AiStageReturned
        => /\ Len(result_summaries) = Len(processed)
           /\ Len(result_embeddings) <= Len(processed)
           /\ Len(AiStageOutput) = Len(result_embeddings)
           /\ SameItems(Len(AiStageOutput))
           /\ ~flags.embeddings => Len(AiStageOutput) = Len(processed)
           /\ ~flags.dedup => response.results = AiStageOutput

\* three results went into the AI stage, the embeddings call answered with
\* two vectors, and the answer has the first two results only
C35_Witness ==
    /\ AiStageReturned
    /\ flags.embeddings
    /\ ~flags.dedup
    /\ Len(processed) = 3
    /\ Len(result_embeddings) = 2
    /\ RanksOf(response.results) = <<processed[1].rank, processed[2].rank>>

\* ---------------------------------------------------------------- C36
\* the admissions of p's key before p's call: the history of admissions,
\* which no sweep pass touches, without p's own
AdmittedBefore(p) ==
    LET h == admitted[api_key[p]]
    IN  IF outcome[p].status = 200 THEN SubSeq(h, 1, Len(h) - 1) ELSE h

\* what check_rate_limit returns at p's `now` with a store that was never
\* swept: the window is the admissions of the key in the trailing 60 s
OutcomeWithoutSweep(p) ==
    LET window == Retained(AdmittedBefore(p),
                           now[p] - Seconds(WindowSeconds))
    IN  IF LimitExceeded(Len(window), rate_limit_per_minute)
        THEN Denied(window, now[p], rate_limit_per_minute)
        ELSE Admitted(Append(window, now[p]), now[p], rate_limit_per_minute)

\* a sweep pass has run
SweepHasRun == wake > Seconds(SleepSeconds)

\* C36: the sweep never changes an admission outcome: wherever sweep passes
\* fall between the calls, each call is admitted or denied, with the same
\* remaining count and reset time, as it would be with no sweep at all.
C36_SweepNeverChangesOutcome ==
    \A p \in Callers :
        pc[p] = "release" => outcome[p] = OutcomeWithoutSweep(p)

\* a call is denied after a sweep pass that ran after the admissions that
\* fill its key's window
C36_Witness ==
    \E p \in Callers :
        /\ pc[p] = "release"
        /\ outcome[p].status = 429
        /\ SweepHasRun
        /\ \A ts \in Range(admitted[api_key[p]]) :
              ts + Seconds(SleepSeconds) < wake

\* ---------------------------------------------------------------- C37
\* q's call is a retry of p's denied call: the same key, decided after p's
\* denial, with no admission for the key in between
RetryOf(q, p) ==
    /\ p # q
    /\ pc[p] = "raised"
    /\ outcome[p].status = 429
    /\ pc[q] = "release"
    /\ api_key[q] = api_key[p]
    /\ \A ts \in Range(AdmittedBefore(q)) : ts <= now[p]

\* C37: a caller denied by check_rate_limit who retries after waiting the
\* seconds of the Retry-After hint, with no other request for the key in
\* between, is admitted on that retry.
C37_RetryAfterHintAdmitted ==
    \A p, q \in Callers :
        (RetryOf(q, p) /\ now[q] >= now[p] + Seconds(outcome[p].retry_after))
            => outcome[q].status = 200

\* What holds: a retry at the reset time or later is admitted, and so is a
\* retry one second after the hinted wait; the hint is the time to the reset
\* cut to whole seconds.
C37_RetryAtResetAdmitted ==
    \A p, q \in Callers :
        RetryOf(q, p)
            => /\ now[q] >= outcome[p].reset_time => outcome[q].status = 200
               /\ now[q] >= now[p] + Seconds(outcome[p].retry_after + 1)
                     => outcome[q].status = 200
               /\ now[p] + Seconds(outcome[p].retry_after)
                     <= outcome[p].reset_time

\* a call denied half a second before the reset, with the hint 0, and a
\* retry right away that is denied too
C37_Witness ==
    \E p, q \in Callers :
        /\ RetryOf(q, p)
        /\ outcome[p].retry_after = 0
        /\ now[q] = now[p]
        /\ outcome[q].status = 429

\* a retry at the reset time that is admitted
C37_WitnessAtReset ==
    \E p, q \in Callers :
        /\ RetryOf(q, p)
        /\ now[q] = outcome[p].reset_time
        /\ outcome[q].status = 200

\* ---------------------------------------------------------------- C38
\* p's request was rejected for its key: 401 or 403
Unauthorized(p) == outcome[p].status \in {401, 403}

\* this step rejects p's request for its key
RejectsKey(p) == ~Unauthorized(p) /\ Unauthorized(p)'

\* C38: a request with a missing or invalid API key is rejected with 401 or
\* 403 before the Rate Gate is consulted: it never takes the lock, the store
\* never holds a window for its key string, and the step that rejects it
\* changes no window, no admission and so no key's remaining budget.
C38_RejectedBeforeGate ==
    /\ [](/\ DOMAIN rate_limit_store \subseteq ApiKeysList
          /\ \A p \in Callers :
                /\ (pc[p] # "idle" /\ api_key[p] \notin ApiKeysList)
                      => /\ pc[p] = "raised"
                         /\ outcome[p].status
                               = IF api_key[p] = "" THEN 401 ELSE 403
                /\ Unauthorized(p) => api_key[p] \notin ApiKeysList)
    /\ [][\A p \in Callers :
             RejectsKey(p)
                => /\ pc[p] = "idle"
                   /\ rate_limit_store' = rate_limit_store
                   /\ rate_limit_lock' = rate_limit_lock
                   /\ admitted' = admitted
                   /\ \A q \in Callers \ {p} : outcome'[q] = outcome[q]]_vars

\* a request with a key that is not configured was rejected with 403 while
\* another caller holds the lock and a valid key has a window with one
\* admission, and the store has no other window
C38_Witness ==
    \E p, q \in Callers :
        /\ pc[p] = "raised"
        /\ api_key[p] = "bad"
        /\ outcome[p].status = 403
        /\ pc[q] = "decide"
        /\ DOMAIN rate_limit_store = {api_key[q]}
        /\ Len(rate_limit_store[api_key[q]]) = 1

\* ---------------------------------------------------------------- C39
\* the handler of caller p answered 400 for the AI flags
RejectedForFlags(p) ==
    /\ pc[p] = "handler"
    /\ mode = "batch"
    /\ response.status = 400

\* C39: in batch mode rate admission precedes request validation: a request
\* rejected with 400 for its AI flags (no credential, or dedup without
\* embeddings) was admitted by the Rate Gate before, its timestamp is in its
\* key's window for 60 seconds from then, and it took one of the key's
\* `limit` admissions.
C39_AdmissionPrecedesValidation ==
    \A p \in Callers :
        RejectedForFlags(p)
            => /\ AiUnavailable(flags) \/ DedupWithoutEmbeddings(flags)
               /\ searchCalls = 0
               /\ api_key[p] \in ApiKeysList
               /\ outcome[p].status = 200
               /\ outcome[p].remaining < rate_limit_per_minute
               /\ clock < now[p] + Seconds(WindowSeconds)
                     => /\ now[p] \in
                              Range(StoreGet(rate_limit_store, api_key[p]))
                        /\ now[p] \in Range(admitted[api_key[p]])
                        /\ AdmittedIn(api_key[p], clock) >= 1

\* a request was rejected with 400 for dedup without embeddings after it
\* took the last admission of its key, and the next call for the key is
\* denied
C39_Witness ==
    \E p, q \in Callers :
        /\ RejectedForFlags(p)
        /\ DedupWithoutEmbeddings(flags)
        /\ has_openai
        /\ outcome[p].remaining = 0
        /\ pc[q] = "release"
        /\ api_key[q] = api_key[p]
        /\ outcome[q].status = 429

\* ---------------------------------------------------------------- C40
\* p's check_rate_limit call has admitted or denied, and p is out of the
\* lock
Decided(p) ==
    /\ pc[p] \in {"returned", "raised"}
    /\ outcome[p].status \in {200, 429}

\* C40: the Rate Gate cannot deadlock or starve a caller: under fair
\* scheduling every check_rate_limit call gets the lock and returns an admit
\* or a deny, the lock is free again after both, and the sweep does not hold
\* the lock while it sleeps.
C40_NoDeadlockNoStarvation ==
    /\ \A p \in Callers : (pc[p] = "acquire") ~> Decided(p)
    /\ rate_limit_lock ~> ~rate_limit_lock
    /\ [](\A p \in Callers :
             Decided(p) => (rate_limit_lock
                               => \E q \in Procs \ {p} : InCriticalSection(q)))
    /\ []((pc[Sweeper] = "sleep" /\ rate_limit_lock)
             => \E q \in Callers : InCriticalSection(q))

\* a call waits for the lock while the sweep holds it and the other caller
\* waits too
C40_Witness ==
    \E p, q \in Callers :
        /\ p # q
        /\ pc[p] = "acquire"
        /\ pc[q] = "acquire"
        /\ pc[Sweeper] = "sweep"
        /\ rate_limit_lock

=============================================================================
